---- MODULE Spec2Model ----
(***************************************************************************)
(* A model of the mysql-cdc pipeline: the binlog reader and its position   *)
(* file (internal/binlog), the row decoder and the processing loop         *)
(* (internal/processor), the transformer (internal/processor/transformer)  *)
(* and the NATS publisher (internal/nats).                                 *)
(*                                                                         *)
(* Strings whose characters the code inspects (the position file, binlog   *)
(* file names, column type texts) are sequences of one-character strings.  *)
(***************************************************************************)
EXTENDS Integers, Sequences, FiniteSets, TLC

(***************************************************************************)
(* Bounds of the model.                                                    *)
(***************************************************************************)
\* number of items (a rotation or a one-statement transaction) in the binlog
MaxItems == 2

\* the columns of a row that the conversion of values is tried on
MaxColumns == 2

\* the rules of a configuration that the transformer is tried on
MaxRules == 2

\* the longest content of a position file that loading is tried on, and the
\* longest file name that saving is tried on
MaxFileLen == 4
MaxNameLen == 2

\* the rows of a SHOW GRANTS result that the pre-flight check is tried on
MaxGrants == 2

\* the tuples of a row event that the decoder is tried on
MaxTuples == 5

\* the tuples of a row event that the decoder is tried on with a list of
\* column names shorter than the tuples
MaxShortTuples == 3

\* the lookups of column information that the caches are tried on
MaxLookups == 3

\* the events that a script with global state is tried on, one after the
\* other
MaxScriptEvents == 3

\* the events the loop reads while main shuts the process down
MaxShutdownEvents == 3

(***************************************************************************)
(* Program constants.                                                      *)
(***************************************************************************)
\* binlog.start_position of the configuration: the first byte after the
\* header of a binlog file
StartPosition == 4
\* the size limit of the text heuristic of convertValue
TextSizeLimit == 65535
\* the largest uint32, in decimal digits (offsets are uint32)
MaxUint32 == << "4", "2", "9", "4", "9", "6", "7", "2", "9", "5" >>

\* the seconds Start sleeps after an error of ReadEvent that is no timeout
BackoffSeconds == 1

None == "none"

(***************************************************************************)
(* Characters and strings.                                                 *)
(***************************************************************************)
\* the characters of the model, in the byte order of their UTF-8 encoding;
\* a character that has no escape in a string is named by its code point
Alphabet ==
  << "\t", "\n", "U+000B", "\f", "\r", " ", "(", ")",
     "0", "1", "2", "3", "4", "5", "6", "7", "8", "9", ":",
     "B", "E", "G", "I", "L", "N", "O", "T", "X", "Y",
     "b", "e", "g", "i", "l", "n", "o", "t", "x", "y",
     "U+0085", "U+00A0", "U+1680",
     "U+2000", "U+2001", "U+2002", "U+2003", "U+2004", "U+2005", "U+2006",
     "U+2007", "U+2008", "U+2009", "U+200A", "U+200B",
     "U+2028", "U+2029", "U+202F", "U+205F", "U+3000" >>

Code(c) == CHOOSE i \in 1..Len(Alphabet) : Alphabet[i] = c

DigitChars == << "0", "1", "2", "3", "4", "5", "6", "7", "8", "9" >>

IsDigit(c) == \E i \in 1..10 : DigitChars[i] = c

DigitVal(c) == (CHOOSE i \in 1..10 : DigitChars[i] = c) - 1

\* the %d verb of fmt.Sprintf
RECURSIVE Dec(_)
Dec(n) == IF n < 10 THEN << DigitChars[n + 1] >>
          ELSE Dec(n \div 10) \o << DigitChars[(n % 10) + 1] >>

\* byte-wise comparison of two strings, as Go's < on strings
RECURSIVE StrLess(_, _)
StrLess(a, b) ==
  IF b = << >> THEN FALSE
  ELSE IF a = << >> THEN TRUE
  ELSE IF Head(a) = Head(b) THEN StrLess(Tail(a), Tail(b))
  ELSE Code(Head(a)) < Code(Head(b))

\* the order of positions: file name first, then byte offset
PosLess(p, q) ==
  \/ StrLess(p.name, q.name)
  \/ p.name = q.name /\ p.pos < q.pos

PosLE(p, q) == p = q \/ PosLess(p, q)

(***************************************************************************)
(* The position file: SavePosition writes "name:offset", NewReader parses  *)
(* it back.                                                                *)
(***************************************************************************)
\* a variant that writes the file name alone, without the offset
FormatPosition_NameOnly(name, pos) == name

\* fmt.Sprintf("%s:%d", name, pos)
FormatPosition(name, pos) == name \o << ":" >> \o Dec(pos)

\* the length of the longest prefix of s made of decimal digits
RECURSIVE DigitPrefixLen(_)
DigitPrefixLen(s) ==
  IF s = << >> \/ ~IsDigit(Head(s)) THEN 0 ELSE 1 + DigitPrefixLen(Tail(s))

RECURSIVE DigitsValue(_)
DigitsValue(s) ==
  IF s = << >> THEN 0
  ELSE 10 * DigitsValue(SubSeq(s, 1, Len(s) - 1)) + DigitVal(s[Len(s)])

\* the digits without their leading zeros
RECURSIVE StripZeros(_)
StripZeros(s) ==
  IF Len(s) > 1 /\ Head(s) = "0" THEN StripZeros(Tail(s)) ELSE s

\* whether the number the digits denote does not fit a uint32
Overflows(digits) ==
  LET d == StripZeros(digits)
  IN  \/ Len(d) > Len(MaxUint32)
      \/ Len(d) = Len(MaxUint32) /\ StrLess(MaxUint32, d)

\* the white space that the verbs of fmt.Sscanf skip: the table space of
\* fmt's isSpace (U+0009 to U+000D, U+0020, U+0085, U+00A0, U+1680, U+2000
\* to U+200A, U+2028, U+2029, U+202F, U+205F, U+3000) without the line
\* feed, which SkipSpace reports as an error
Blanks ==
  {"\t", "U+000B", "\f", "\r", " ", "U+0085", "U+00A0", "U+1680",
   "U+2000", "U+2001", "U+2002", "U+2003", "U+2004", "U+2005", "U+2006",
   "U+2007", "U+2008", "U+2009", "U+200A",
   "U+2028", "U+2029", "U+202F", "U+205F", "U+3000"}

\* ss.SkipSpace of fmt: the input without its leading white space
RECURSIVE SkipSpace(_)
SkipSpace(s) ==
  IF s # << >> /\ Head(s) \in Blanks THEN SkipSpace(Tail(s)) ELSE s

\* fmt.Sscanf(s, "%d", &pos) with pos a uint32: leading white space is
\* skipped, the digits that follow are read, what follows them is ignored;
\* no digit (the end of the input, a newline, a sign, a letter) or an
\* overflow is an error
Sscanf(s) ==
  LET t == SkipSpace(s)
      n == DigitPrefixLen(t)
      digits == SubSeq(t, 1, n)
  IN  IF n = 0 \/ Overflows(digits) THEN [ok |-> FALSE, pos |-> 0]
      ELSE [ok |-> TRUE, pos |-> DigitsValue(digits)]

\* a variant that finds the first ':' of s
LastColon_First(s) ==
  IF \E i \in 1..Len(s) : s[i] = ":"
  THEN CHOOSE i \in 1..Len(s) : s[i] = ":" /\ \A k \in 1..(i - 1) : s[k] # ":"
  ELSE 0

\* the index (from 1) of the last ':' of s, 0 when there is none
RECURSIVE LastColon(_)
LastColon(s) ==
  IF s = << >> THEN 0
  ELSE IF s[Len(s)] = ":" THEN Len(s)
  ELSE LastColon(SubSeq(s, 1, Len(s) - 1))

\* a variant that starts at offset 0 when there is nothing to load
LoadPosition_FromZero(file, startPos) ==
  IF ~file.exists \/ file.data = << >> THEN [name |-> << >>, pos |-> 0]
  ELSE LET posStr == file.data
           k == LastColon(posStr)
       IN  IF k > 1 /\ k < Len(posStr)
           THEN LET sc == Sscanf(SubSeq(posStr, k + 1, Len(posStr)))
                IN  IF sc.ok THEN [name |-> SubSeq(posStr, 1, k - 1), pos |-> sc.pos]
                    ELSE [name |-> posStr, pos |-> startPos]
           ELSE [name |-> posStr, pos |-> startPos]

\* a variant without the fallback to the old format: a file it cannot parse
\* is taken as no file
LoadPosition_NoFallback(file, startPos) ==
  IF ~file.exists \/ file.data = << >> THEN [name |-> << >>, pos |-> startPos]
  ELSE LET posStr == file.data
           k == LastColon(posStr)
       IN  IF k > 1 /\ k < Len(posStr)
           THEN LET sc == Sscanf(SubSeq(posStr, k + 1, Len(posStr)))
                IN  IF sc.ok THEN [name |-> SubSeq(posStr, 1, k - 1), pos |-> sc.pos]
                    ELSE [name |-> << >>, pos |-> startPos]
           ELSE [name |-> << >>, pos |-> startPos]

\* the position NewReader starts from, given the position file
LoadPosition(file, startPos) ==
  IF ~file.exists \/ file.data = << >> THEN [name |-> << >>, pos |-> startPos]
  ELSE LET posStr == file.data
           k == LastColon(posStr)
       IN  IF k > 1 /\ k < Len(posStr)
           THEN LET sc == Sscanf(SubSeq(posStr, k + 1, Len(posStr)))
                IN  IF sc.ok THEN [name |-> SubSeq(posStr, 1, k - 1), pos |-> sc.pos]
                    ELSE [name |-> posStr, pos |-> startPos]
           ELSE [name |-> posStr, pos |-> startPos]

(***************************************************************************)
(* Values of a row tuple as go-mysql hands them to the decoder: nil, a raw *)
(* byte sequence ([]byte) or a value of another kind (here an integer).    *)
(* A byte sequence is described by its length n and its content id; the    *)
(* Go conversion string(b) keeps both.                                     *)
(***************************************************************************)
Nil == [k |-> "nil", n |-> 0, id |-> ""]

IntVal(v) == [k |-> "int", n |-> v, id |-> ""]

Bytes(id, n) == [k |-> "bytes", n |-> n, id |-> id]

\* string(b) of Go for a []byte b
String(b) == [k |-> "string", n |-> b.n, id |-> b.id]

(***************************************************************************)
(* The source server: its catalog (INFORMATION_SCHEMA.COLUMNS) and its     *)
(* binlog.                                                                 *)
(***************************************************************************)
TypeInt == << "i", "n", "t" >>

TypeText == << "t", "e", "x", "t" >>

TypeBlob == << "b", "l", "o", "b" >>

Catalog ==
  [ orders |-> [names |-> << "id", "code", "blob_col" >>,
                types |-> << TypeInt, TypeText, TypeBlob >>],
    audit  |-> [names |-> << "id", "note" >>,
                types |-> << TypeInt, TypeBlob >>] ]

\* the catalog after ALTER TABLE orders DROP COLUMN code
AlteredCatalog ==
  [Catalog EXCEPT !.orders = [names |-> << "id", "blob_col" >>,
                              types |-> << TypeInt, TypeBlob >>]]

\* the catalog of the server at a version of the schema
CatalogAt(ver) == IF ver = 1 THEN Catalog ELSE AlteredCatalog

\* the name of the i-th binlog file
BinlogName(i) == << "b", "i", "n" >> \o Dec(i)

NoRows == << >>

NoFields == [f \in {} |-> ""]

\* a change event without RawJSON
NoRaw == [present |-> FALSE, obj |-> NoFields]

\* the nil change event that comes with an error
NoEvent == [Type |-> "", Database |-> "", Table |-> "", Timestamp |-> 0,
            Rows |-> << >>, OldRows |-> << >>, RawJSON |-> NoRaw]

\* one event of the binlog; file and logpos say where the event ends, ver
\* is the version of the schema the server had when it logged the event
Event(kind, file, logpos) ==
  [kind |-> kind, file |-> file, logpos |-> logpos,
   next |-> << >>, npos |-> 0,
   tid |-> 0, db |-> "", table |-> "", names |-> << >>,
   etype |-> "", rows |-> NoRows, ver |-> 1]

RotateEvent(file, logpos, next, npos) ==
  [Event("rotate", file, logpos) EXCEPT !.next = next, !.npos = npos]

TableMapEvent(file, logpos, tid, table, names) ==
  [Event("tablemap", file, logpos) EXCEPT
     !.tid = tid, !.db = "shop", !.table = table, !.names = names]

RowsEvent(file, logpos, tid, table, etype, rows) ==
  [Event("rows", file, logpos) EXCEPT
     !.tid = tid, !.db = "shop", !.table = table, !.etype = etype, !.rows = rows]

\* the statements the binlog of the model is made of; a table map that
\* carries its column names is what a server with full row metadata logs
Statements ==
  [ ins_orders |-> [tid |-> 1, table |-> "orders", names |-> << >>, ver |-> 1,
                    etype |-> "INSERT",
                    rows |-> << << IntVal(42), Bytes("hi", 2), Bytes("bin", 3) >> >>],
    upd_orders |-> [tid |-> 1, table |-> "orders", names |-> << >>, ver |-> 1,
                    etype |-> "UPDATE",
                    rows |-> << << IntVal(1), Bytes("new", 3), Nil >>,
                                << IntVal(1), Bytes("done", 4), Nil >>,
                                << IntVal(2), Bytes("new", 3), Nil >>,
                                << IntVal(2), Bytes("done", 4), Nil >> >>],
    del_audit  |-> [tid |-> 2, table |-> "audit", names |-> << "id", "note" >>,
                    ver |-> 1, etype |-> "DELETE",
                    rows |-> << << IntVal(7), Bytes("x", 1) >> >>],
    \* the same table with its column names in the table map
    ins_orders_named |->
                   [tid |-> 1, table |-> "orders",
                    names |-> << "id", "code", "blob_col" >>, ver |-> 1,
                    etype |-> "INSERT",
                    rows |-> << << IntVal(42), Bytes("hi", 2), Bytes("bin", 3) >> >>],
    \* statements logged after the column code was dropped
    ins_altered |-> [tid |-> 1, table |-> "orders", names |-> << >>, ver |-> 2,
                    etype |-> "INSERT",
                    rows |-> << << IntVal(43), Bytes("raw", 3) >> >>],
    ins_altered_named |->
                   [tid |-> 1, table |-> "orders",
                    names |-> << "id", "blob_col" >>, ver |-> 2,
                    etype |-> "INSERT",
                    rows |-> << << IntVal(43), Bytes("raw", 3) >> >>],
    \* a statement on another table that takes over table_id 1
    del_audit_reused |->
                   [tid |-> 1, table |-> "audit", names |-> << >>, ver |-> 1,
                    etype |-> "DELETE",
                    rows |-> << << IntVal(7), Bytes("x", 1) >> >>],
    \* row events that carry no whole row: an UPDATE of a single tuple,
    \* which is no pair, and an INSERT of no tuple
    upd_single |-> [tid |-> 1, table |-> "orders", names |-> << >>, ver |-> 1,
                    etype |-> "UPDATE",
                    rows |-> << << IntVal(1), Bytes("new", 3), Nil >> >>],
    ins_none   |-> [tid |-> 1, table |-> "orders", names |-> << >>, ver |-> 1,
                    etype |-> "INSERT", rows |-> << >>] ]

\* the items the binlogs of the model are made of, a rotation or a
\* statement, in a cycle; a binlog is MaxItems successive items of it
ItemCycle == << "ins_orders", "rotate", "upd_orders", "del_audit" >>

ItemsFrom(first) ==
  [i \in 1..MaxItems |-> ItemCycle[((first + i - 2) % Len(ItemCycle)) + 1]]

\* the size of every event of the model
EventSize == 3

\* the binlog that the items produce, written from file number f, offset off
RECURSIVE Expand(_, _, _)
Expand(items, f, off) ==
  IF items = << >> THEN << >>
  ELSE IF Head(items) = "rotate"
  THEN << RotateEvent(BinlogName(f), off + EventSize, BinlogName(f + 1), StartPosition) >>
       \o Expand(Tail(items), f + 1, StartPosition)
  ELSE LET st == Statements[Head(items)]
       IN  << [TableMapEvent(BinlogName(f), off + EventSize, st.tid, st.table,
                             st.names) EXCEPT !.ver = st.ver],
              [RowsEvent(BinlogName(f), off + 2 * EventSize, st.tid, st.table,
                         st.etype, st.rows) EXCEPT !.ver = st.ver] >>
           \o Expand(Tail(items), f, off + 2 * EventSize)

\* the items of the binlog whose row events carry no whole row
EmptyItems == << "upd_single", "ins_none" >>

Binlogs ==
  { Expand(ItemsFrom(first), 1, StartPosition) : first \in 1..Len(ItemCycle) }
    \cup { Expand(EmptyItems, 1, StartPosition) }

\* where the event ends
EndOf(e) == [name |-> e.file, pos |-> e.logpos]

(***************************************************************************)
(* The row decoder (Processor.getColumnInfo, Processor.ProcessRowEvent).   *)
(***************************************************************************)
LowerChars ==
  << "a", "b", "c", "d", "e", "f", "g", "h", "i", "j", "k", "l", "m",
     "n", "o", "p", "q", "r", "s", "t", "u", "v", "w", "x", "y", "z" >>

UpperChars ==
  << "A", "B", "C", "D", "E", "F", "G", "H", "I", "J", "K", "L", "M",
     "N", "O", "P", "Q", "R", "S", "T", "U", "V", "W", "X", "Y", "Z" >>

\* strings.ToUpper, character by character
UpperChar(c) ==
  IF \E i \in 1..Len(LowerChars) : LowerChars[i] = c
  THEN UpperChars[CHOOSE i \in 1..Len(LowerChars) : LowerChars[i] = c]
  ELSE c

ToUpper(s) == [i \in 1..Len(s) |-> UpperChar(s[i])]

\* strings.Contains
Contains(s, sub) ==
  \E i \in 0..(Len(s) - Len(sub)) : SubSeq(s, i + 1, i + Len(sub)) = sub

TEXT == << "T", "E", "X", "T" >>

\* the closure convertValue of ProcessRowEvent; j is the column index
\* counted from 1, so that the code's colIndex is j - 1
convertValue(value, j, columnTypes) ==
  IF value.k = "nil" THEN Nil
  ELSE IF /\ j - 1 < Len(columnTypes)
          /\ Contains(ToUpper(columnTypes[j]), TEXT)
          /\ value.k = "bytes"
  THEN String(value)
  ELSE IF /\ value.k = "bytes"
          /\ value.n > 0
          /\ value.n < TextSizeLimit
          /\ String(value).n = value.n
  THEN String(value)
  ELSE value

\* the parts between the dots of an identifier of the model
Segments(name) ==
  CASE name = "a.b" -> << "a", "b" >>
    [] name = "b.c" -> << "b", "c" >>
    [] OTHER -> << name >>

\* the key of the column caches, fmt.Sprintf("%s.%s", database, table):
\* the parts of the two names, with a dot between any two of them
CacheKey(database, table) == Segments(database) \o Segments(table)

\* the answer of INFORMATION_SCHEMA.COLUMNS of a catalog for a table
QueryColumns(catalog, table) ==
  IF table \in DOMAIN catalog THEN catalog[table]
  ELSE [names |-> << >>, types |-> << >>]

\* getColumnInfo: the cached entry if there is one, else the result of the
\* query on the catalog the server has (dbOk says whether the query
\* succeeds), which is then cached
getColumnInfo(columnNames, columnTypes, database, table, catalog, dbOk) ==
  LET cacheKey == CacheKey(database, table)
  IN  IF cacheKey \in DOMAIN columnNames
      THEN [ok |-> TRUE, names |-> columnNames[cacheKey],
            types |-> IF cacheKey \in DOMAIN columnTypes
                      THEN columnTypes[cacheKey] ELSE << >>,
            columnNames |-> columnNames, columnTypes |-> columnTypes,
            queried |-> FALSE]
      ELSE IF ~dbOk
      THEN [ok |-> FALSE, names |-> << >>, types |-> << >>,
            columnNames |-> columnNames, columnTypes |-> columnTypes,
            queried |-> TRUE]
      ELSE LET q == QueryColumns(catalog, table)
           IN  [ok |-> TRUE, names |-> q.names, types |-> q.types,
                columnNames |-> [k \in DOMAIN columnNames \cup {cacheKey} |->
                                   IF k = cacheKey THEN q.names ELSE columnNames[k]],
                columnTypes |-> [k \in DOMAIN columnTypes \cup {cacheKey} |->
                                   IF k = cacheKey THEN q.types ELSE columnTypes[k]],
                queried |-> TRUE]

Min(a, b) == IF a < b THEN a ELSE b

\* a variant that takes the last values of a tuple that is longer than
\* the list of names
RowMap_LastValues(row, columnNames, columnTypes) ==
  LET m == Min(Len(row), Len(columnNames))
      skip == Len(row) - m
  IN  [name \in {columnNames[j] : j \in 1..m} |->
         LET j == CHOOSE i \in 1..m :
                    /\ columnNames[i] = name
                    /\ \A h \in (i + 1)..m : columnNames[h] # name
         IN  convertValue(row[j + skip], j, columnTypes)]

\* the map built from one row tuple: the first min(len(row), len(names))
\* values under their column names (a later column of the same name wins)
RowMap(row, columnNames, columnTypes) ==
  LET m == Min(Len(row), Len(columnNames))
  IN  [name \in {columnNames[j] : j \in 1..m} |->
         LET j == CHOOSE i \in 1..m :
                    /\ columnNames[i] = name
                    /\ \A h \in (i + 1)..m : columnNames[h] # name
         IN  convertValue(row[j], j, columnTypes)]

\* the rows of an UPDATE event: tuples 2i-1 and 2i (counted from 1) are
\* the old and the new image of the i-th row
UpdatePairs(rows) == Len(rows) \div 2

\* a variant that builds the rows of an UPDATE from the old images
DecodeRows_OldImage(rows, eventType, names, types) ==
  IF eventType = "UPDATE"
  THEN [i \in 1..UpdatePairs(rows) |-> RowMap(rows[2 * i - 1], names, types)]
  ELSE [i \in 1..Len(rows) |-> RowMap(rows[i], names, types)]

\* the Rows of the change event: for an UPDATE the new image of every
\* pair of tuples, else every tuple
DecodeRows(rows, eventType, names, types) ==
  IF eventType = "UPDATE"
  THEN [i \in 1..UpdatePairs(rows) |-> RowMap(rows[2 * i], names, types)]
  ELSE [i \in 1..Len(rows) |-> RowMap(rows[i], names, types)]

\* the OldRows of the change event: for an UPDATE the old image of every
\* pair of tuples, else none
DecodeOldRows(rows, eventType, names, types) ==
  IF eventType = "UPDATE"
  THEN [i \in 1..UpdatePairs(rows) |-> RowMap(rows[2 * i - 1], names, types)]
  ELSE << >>

\* a variant that fetches the column information before it looks for the
\* table map
ProcessRowEvent_QueriesFirst(event, eventType, tables, columnNames, columnTypes, catalog, dbOk, now) ==
  LET info == getColumnInfo(columnNames, columnTypes, event.db, event.table,
                            catalog, dbOk)
  IN  IF event.tid \notin DOMAIN tables
      THEN [err |-> "table map not found", event |-> NoEvent,
            columnNames |-> info.columnNames, columnTypes |-> info.columnTypes]
      ELSE LET tableMap == tables[event.tid]
               embedded == Len(tableMap.names) > 0
               names == IF embedded THEN tableMap.names ELSE info.names
               types == IF info.ok THEN info.types ELSE << >>
           IN  IF ~embedded /\ ~info.ok
               THEN [err |-> "failed to get column info", event |-> NoEvent,
                     columnNames |-> info.columnNames, columnTypes |-> info.columnTypes]
               ELSE [err |-> None,
                     event |->
                       [Type |-> eventType, Database |-> event.db, Table |-> event.table,
                        Timestamp |-> now,
                        Rows |-> DecodeRows(event.rows, eventType, names, types),
                        OldRows |-> DecodeOldRows(event.rows, eventType, names, types),
                        RawJSON |-> NoRaw],
                     columnNames |-> info.columnNames, columnTypes |-> info.columnTypes]

\* ProcessRowEvent: the change event of a row event, or an error; catalog
\* is what INFORMATION_SCHEMA holds when the query is made and now what
\* time.Now().Unix() gives
ProcessRowEvent(event, eventType, tables, columnNames, columnTypes, catalog, dbOk, now) ==
  IF event.tid \notin DOMAIN tables
  THEN [err |-> "table map not found", event |-> NoEvent,
        columnNames |-> columnNames, columnTypes |-> columnTypes]
  ELSE LET tableMap == tables[event.tid]
           info == getColumnInfo(columnNames, columnTypes, event.db, event.table,
                                 catalog, dbOk)
           embedded == Len(tableMap.names) > 0
           names == IF embedded THEN tableMap.names ELSE info.names
           types == IF info.ok THEN info.types ELSE << >>
       IN  IF ~embedded /\ ~info.ok
           THEN [err |-> "failed to get column info", event |-> NoEvent,
                 columnNames |-> info.columnNames, columnTypes |-> info.columnTypes]
           ELSE [err |-> None,
                 event |->
                   [Type |-> eventType, Database |-> event.db, Table |-> event.table,
                    Timestamp |-> now,
                    Rows |-> DecodeRows(event.rows, eventType, names, types),
                    OldRows |-> DecodeOldRows(event.rows, eventType, names, types),
                    RawJSON |-> NoRaw],
                 columnNames |-> info.columnNames, columnTypes |-> info.columnTypes]

(***************************************************************************)
(* JSON.  A JSON object is a function from its field names; a field that   *)
(* is omitted is not in the domain.  encoding/json writes a []byte as a    *)
(* base64 string and a Go string as a JSON string.                         *)
(***************************************************************************)
JsonValue(v) ==
  CASE v.k = "nil" -> [k |-> "null", n |-> 0, id |-> ""]
    [] v.k = "int" -> [k |-> "number", n |-> v.n, id |-> ""]
    [] v.k = "string" -> [k |-> "string", n |-> v.n, id |-> v.id]
    [] v.k = "bytes" -> [k |-> "base64", n |-> v.n, id |-> v.id]
    [] OTHER -> v

JsonRow(row) == [name \in DOMAIN row |-> JsonValue(row[name])]

JsonRows(rows) == [i \in 1..Len(rows) |-> JsonRow(rows[i])]

\* json.Marshal of a ChangeEvent: old_rows has the omitempty tag
Marshal(event) ==
  LET base == [type |-> event.Type, database |-> event.Database,
               table |-> event.Table, timestamp |-> event.Timestamp,
               rows |-> JsonRows(event.Rows)]
  IN  IF Len(event.OldRows) > 0
      THEN [f \in DOMAIN base \cup {"old_rows"} |->
              IF f = "old_rows" THEN JsonRows(event.OldRows) ELSE base[f]]
      ELSE base

(***************************************************************************)
(* The transformer.                                                        *)
(***************************************************************************)
\* strings.ToLower on the identifiers of the model that are not lower case
LowerTable ==
  [SHOP |-> "shop", Orders |-> "orders", BLOB_COL |-> "blob_col",
   ID |-> "id", Code |-> "code"]

ToLower(s) == IF s \in DOMAIN LowerTable THEN LowerTable[s] ELSE s

\* strings.EqualFold
EqualFold(a, b) == ToLower(a) = ToLower(b)

\* whether the list of field names holds one that is name, ignoring case
Listed(list, name) == \E j \in 1..Len(list) : EqualFold(list[j], name)

\* a variant that does not look at the rename keys
ValidateRules_NoRenameCheck(cfg, scriptExists) ==
  LET both(rule) == Len(rule.Include) > 0 /\ Len(rule.Exclude) > 0
      bad == {i \in 1..Len(cfg.Rules) : both(cfg.Rules[i])}
  IN  IF ~cfg.Enabled THEN None
      ELSE IF cfg.Script /\ ~scriptExists THEN "JavaScript script file not found"
      ELSE IF cfg.Script /\ Len(cfg.Rules) > 0
      THEN "cannot specify both 'script' and 'rules'"
      ELSE IF bad = {} THEN None
      ELSE "cannot specify both 'include' and 'exclude' fields"

\* ValidateRules: nil, or the error it returns; scriptExists says whether
\* os.Stat finds the script file
ValidateRules(cfg, scriptExists) ==
  LET both(rule) == Len(rule.Include) > 0 /\ Len(rule.Exclude) > 0
      stray(rule) ==
        /\ DOMAIN rule.Rename # {} /\ Len(rule.Include) > 0
        /\ \E oldName \in DOMAIN rule.Rename : ~Listed(rule.Include, oldName)
      bad == {i \in 1..Len(cfg.Rules) : both(cfg.Rules[i]) \/ stray(cfg.Rules[i])}
  IN  IF ~cfg.Enabled THEN None
      ELSE IF cfg.Script /\ ~scriptExists THEN "JavaScript script file not found"
      ELSE IF cfg.Script /\ Len(cfg.Rules) > 0
      THEN "cannot specify both 'script' and 'rules'"
      ELSE IF bad = {} THEN None
      ELSE IF both(cfg.Rules[CHOOSE i \in bad : \A k \in bad : i <= k])
      THEN "cannot specify both 'include' and 'exclude' fields"
      ELSE "rename key not found in include list"

\* the configurations of the processor section
DisabledConfig == [Enabled |-> FALSE, Script |-> FALSE, Rules |-> << >>]

ScriptConfig == [Enabled |-> TRUE, Script |-> TRUE, Rules |-> << >>]

RulesConfig ==
  [Enabled |-> TRUE, Script |-> FALSE,
   Rules |-> << [Database |-> "SHOP", Table |-> "Orders",
                 Include |-> << >>, Exclude |-> << "BLOB_COL" >>,
                 Rename |-> [code |-> "order_code"],
                 AddFields |-> [source |-> [k |-> "string", n |-> 9, id |-> "mysql-cdc"]]],
               [Database |-> "", Table |-> "",
                 Include |-> << "id" >>, Exclude |-> << >>,
                 Rename |-> NoFields, AddFields |-> NoFields] >>]

Configs == {DisabledConfig, ScriptConfig, RulesConfig}

\* the script file the configuration names, as NewTransformer finds it:
\* there is none, it cannot be read, running its text fails or gives no
\* function, or it gives a function
ScriptFiles == {"missing", "unreadable", "invalid", "valid"}

\* the nil transformer that comes with an error
NoTransformer == [config |-> DisabledConfig, rules |-> << >>, jsScript |-> FALSE]

\* NewTransformer: the transformer, or the error of reading or validating
\* the script; jsScript says whether the text of a script is held, rules
\* are the matchers built from the rules of the configuration
NewTransformer(cfg, scriptFile) ==
  IF ~cfg.Enabled
  THEN [err |-> None, t |-> [config |-> cfg, rules |-> << >>, jsScript |-> FALSE]]
  ELSE IF cfg.Script /\ scriptFile \in {"missing", "unreadable"}
  THEN [err |-> "failed to read JavaScript script file", t |-> NoTransformer]
  ELSE IF cfg.Script /\ scriptFile = "invalid"
  THEN [err |-> "invalid JavaScript script", t |-> NoTransformer]
  ELSE [err |-> None,
        t |-> [config |-> cfg, jsScript |-> cfg.Script,
               rules |->
                 [i \in 1..Len(cfg.Rules) |->
                    LET rule == cfg.Rules[i]
                    IN  [database |-> rule.Database, table |-> rule.Table,
                         include |-> {ToLower(rule.Include[j]) : j \in 1..Len(rule.Include)},
                         exclude |-> {ToLower(rule.Exclude[j]) : j \in 1..Len(rule.Exclude)},
                         rename |-> rule.Rename, addFields |-> rule.AddFields]]]]

\* RuleMatcher.matches
matches(r, database, table) ==
  /\ r.database = "" \/ EqualFold(r.database, database)
  /\ r.table = "" \/ EqualFold(r.table, table)

\* a variant that compares the field names as they are written
KeptFields_AsWritten(row, rule) ==
  {key \in DOMAIN row :
     /\ ~(rule.exclude # {} /\ key \in rule.exclude)
     /\ ~(rule.include # {} /\ key \notin rule.include)}

\* the fields of a row that transformRow keeps
KeptFields(row, rule) ==
  {key \in DOMAIN row :
     /\ ~(rule.exclude # {} /\ ToLower(key) \in rule.exclude)
     /\ ~(rule.include # {} /\ ToLower(key) \notin rule.include)}

OutputKey(key, rule) ==
  IF ToLower(key) \in DOMAIN rule.rename THEN rule.rename[ToLower(key)] ELSE key

\* a variant that writes the static fields after the fields of the row
transformRow_StaticLast(row, rule) ==
  LET kept == KeptFields(row, rule)
      outKeys == DOMAIN rule.addFields \cup {OutputKey(key, rule) : key \in kept}
      sources(o) == {key \in kept : OutputKey(key, rule) = o}
      lasts == {c \in [outKeys -> kept \cup {None}] :
                  \A o \in outKeys : IF o \in DOMAIN rule.addFields THEN c[o] = None
                                     ELSE c[o] \in sources(o)}
  IN  {[o \in outKeys |-> IF c[o] = None THEN rule.addFields[o] ELSE row[c[o]]] :
         c \in lasts}

\* transformRow: the rows it can return.  The static fields are written
\* first, then the kept fields in the iteration order of the Go map, which
\* is not fixed: when several kept fields have the same output key, any of
\* them can be the last one written.
transformRow(row, rule) ==
  LET kept == KeptFields(row, rule)
      outKeys == DOMAIN rule.addFields \cup {OutputKey(key, rule) : key \in kept}
      sources(o) == {key \in kept : OutputKey(key, rule) = o}
      lasts == {c \in [outKeys -> kept \cup {None}] :
                  \A o \in outKeys : IF sources(o) = {} THEN c[o] = None
                                     ELSE c[o] \in sources(o)}
  IN  {[o \in outKeys |-> IF c[o] = None THEN rule.addFields[o] ELSE row[c[o]]] :
         c \in lasts}

\* the sequences whose i-th element is one of the rows transformRow can
\* return for the i-th row
transformRows(rows, rule) ==
  {out \in [1..Len(rows) -> UNION {transformRow(rows[i], rule) : i \in 1..Len(rows)}] :
     \A i \in 1..Len(rows) : out[i] \in transformRow(rows[i], rule)}

\* a variant that applies the last matching rule
transformWithRules_LastMatch(rules, event) ==
  LET matching == {i \in 1..Len(rules) : matches(rules[i], event.Database, event.Table)}
  IN  IF matching = {} THEN {[err |-> None, event |-> event]}
      ELSE LET matchedRule == rules[CHOOSE i \in matching : \A k \in matching : i >= k]
           IN  {[err |-> None,
                 event |-> [Type |-> event.Type, Database |-> event.Database,
                            Table |-> event.Table, Timestamp |-> event.Timestamp,
                            Rows |-> rs, OldRows |-> os, RawJSON |-> NoRaw]] :
                  rs \in transformRows(event.Rows, matchedRule),
                  os \in transformRows(event.OldRows, matchedRule)}

\* transformWithRules: the first matching rule is applied to every row
transformWithRules(rules, event) ==
  LET matching == {i \in 1..Len(rules) : matches(rules[i], event.Database, event.Table)}
  IN  IF matching = {} THEN {[err |-> None, event |-> event]}
      ELSE LET matchedRule == rules[CHOOSE i \in matching : \A h \in matching : i <= h]
           IN  {[err |-> None,
                 event |-> [Type |-> event.Type, Database |-> event.Database,
                            Table |-> event.Table, Timestamp |-> event.Timestamp,
                            Rows |-> rs, OldRows |-> os, RawJSON |-> NoRaw]] :
                  rs \in transformRows(event.Rows, matchedRule),
                  os \in transformRows(event.OldRows, matchedRule)}

\* the subject of the sink, and a subject and a bucket of the key-value
\* store that scripts use
Subject == << "mysql", "cdc", "events" >>

InsertsSubject == << "cdc", "mysql", "inserts" >>

UpdatesSubject == << "cdc", "mysql", "updates" >>

Bucket == "mybucket"

\* the key-value store of the server (JetStream): its entries by bucket
\* and key.  The store is no part of the process: it is there before the
\* process starts and after it has ended.  An entry holds the value and,
\* for the history, the binlog index of the event the value was made from.
NoStore == [p \in {} |-> 0]

NoEntry == [present |-> FALSE, data |-> NoFields, idx |-> 0]

Entry(data, idx) == [present |-> TRUE, data |-> data, idx |-> idx]

\* kv.Get(key) on the bucket: the entry, none for nats.ErrKeyNotFound
KvGet(store, bucket, key) ==
  IF << bucket, key >> \in DOMAIN store THEN store[<< bucket, key >>] ELSE NoEntry

\* kv.Put(key, value) on the bucket
KvPut(store, bucket, key, entry) ==
  [p \in DOMAIN store \cup {<< bucket, key >>} |->
     IF p = << bucket, key >> THEN entry ELSE store[p]]

\* kv.Delete(key) on the bucket
KvDelete(store, bucket, key) ==
  [p \in DOMAIN store \ {<< bucket, key >>} |-> store[p]]

\* what running the script and calling its function with the event object
\* can come to when the function calls no binding: running the text
\* fails, gives no function or leaves no JSON.parse; the function throws,
\* returns null or undefined, returns something that is no JSON object (a
\* function cannot be marshalled, a number does not unmarshal into a map),
\* or returns an object: the event itself, or the event without its
\* timestamp, with a field of its own added and with old_rows added (when
\* the event has none) or deleted.
ScriptResults(eventObj) ==
  LET Result(k, obj) == [k |-> k, obj |-> obj]
      changed ==
        LET fields == ((IF "old_rows" \in DOMAIN eventObj
                        THEN DOMAIN eventObj \ {"old_rows"}
                        ELSE DOMAIN eventObj \cup {"old_rows"})
                       \ {"timestamp"}) \cup {"source"}
        IN  [f \in fields |->
               CASE f = "source" -> [k |-> "string", n |-> 3, id |-> "cdc"]
                 [] f = "old_rows" -> eventObj.rows
                 [] OTHER -> eventObj[f]]
  IN  { Result("run_error", NoFields), Result("no_function", NoFields),
        Result("parse_error", NoFields),
        Result("throw", NoFields), Result("null", NoFields),
        Result("undefined", NoFields), Result("function", NoFields),
        Result("number", NoFields),
        Result("object", eventObj), Result("object", changed) }

\* the scripts that call the bindings.  As src/example/transformer.js:
\* "example" puts a summary of the event into the bucket under a key made
\* of its database, table and timestamp, publishes an INSERT or an UPDATE
\* on a subject of its own and returns the event, catching what the
\* bindings throw.  "publish_null" publishes the event on the subject of
\* the sink and returns null, "publish_throw" publishes it and throws.
\* "hold" puts the event into the bucket and returns null.  "release"
\* gets the event held in the bucket: if there is none it returns the
\* event in hand, otherwise it publishes the event in hand and after it
\* the one held, deletes the key and returns null.
BindingScripts == {"example", "publish_null", "publish_throw", "hold", "release"}

\* the run of a script for one event: the script, or for a function that
\* calls no binding what it comes to (k, obj); the number of binding calls
\* that have returned, what nats.kv.get returned, and whether a binding
\* has thrown an error that the script does not catch
NotRunning == [script |-> "none", k |-> "none", obj |-> NoFields,
          at |-> 0, got |-> NoEntry, failed |-> FALSE]

\* Transform was called without a script
NoResult == [k |-> "none", obj |-> NoFields]

\* the setting up of the bindings fails
BindingsFail == [k |-> "bindings_error", obj |-> NoFields]

PlainRun(result) == [NotRunning EXCEPT !.script = "plain", !.k = result.k, !.obj = result.obj]

\* whether the script catches the errors its binding calls throw
Catches(script) == script = "example"

\* what the run of a script does next: a call of a binding, or the end of
\* the function with its result (with an exception when a binding threw)
ScriptNext(run, eventObj) ==
  LET Do(op, subject, key, data, idx) ==
        [op |-> op, subject |-> subject, key |-> key, data |-> data, idx |-> idx,
         k |-> "none"]
      Return(k, obj) ==
        [op |-> "return", subject |-> << >>, key |-> << >>, data |-> obj, idx |-> 0,
         k |-> k]
  IN  IF run.failed THEN Return("throw", NoFields)
      ELSE CASE run.script = "example" ->
                  CASE run.at = 0 ->
                         Do("kv.put", << >>,
                            << eventObj.database, eventObj.table, eventObj.timestamp >>,
                            [type |-> eventObj.type, timestamp |-> eventObj.timestamp], 0)
                    [] run.at = 1 /\ eventObj.type = "INSERT" ->
                         Do("publish", InsertsSubject, << >>, eventObj, 0)
                    [] run.at = 1 /\ eventObj.type = "UPDATE" ->
                         Do("publish", UpdatesSubject, << >>, eventObj, 0)
                    [] OTHER -> Return("object", eventObj)
             [] run.script = "publish_null" ->
                  IF run.at = 0 THEN Do("publish", Subject, << >>, eventObj, 0)
                  ELSE Return("null", NoFields)
             [] run.script = "publish_throw" ->
                  IF run.at = 0 THEN Do("publish", Subject, << >>, eventObj, 0)
                  ELSE Return("throw", NoFields)
             [] run.script = "hold" ->
                  IF run.at = 0 THEN Do("kv.put", << >>, << "held" >>, eventObj, 0)
                  ELSE Return("null", NoFields)
             [] run.script = "release" ->
                  CASE run.at = 0 -> Do("kv.get", << >>, << "held" >>, NoFields, 0)
                    [] run.at > 0 /\ ~run.got.present -> Return("object", eventObj)
                    [] run.at = 1 /\ run.got.present ->
                         Do("publish", Subject, << >>, eventObj, 0)
                    [] run.at = 2 /\ run.got.present ->
                         Do("publish", Subject, << >>, run.got.data, run.got.idx)
                    [] run.at = 3 /\ run.got.present ->
                         Do("kv.delete", << >>, << "held" >>, NoFields, 0)
                    [] OTHER -> Return("null", NoFields)
             [] OTHER -> Return(run.k, run.obj)

\* a message as the server receives it, with the tags of the history: the
\* binlog index of the event its data was made from, and who published it
Message(subject, data, idx, via) ==
  [subject |-> subject, data |-> data, idx |-> idx, via |-> via]

\* a variant that delivers the message ahead of the ones before it
Publish_Ahead(received, msg) == << msg >> \o received

\* nats.Conn.Publish: the message is appended to what the subject received
Publish(received, msg) == Append(received, msg)

\* the binding nats.publish(subject, data): the messages the server has
\* received afterwards
publishFn(server, c, idx) ==
  Publish(server, Message(c.subject, c.data, IF c.idx = 0 THEN idx ELSE c.idx, "script"))

\* the binding nats.kv.get(bucket, key): what the script gets, null for a
\* key that is not found
kvGetFn(store, c) == KvGet(store, Bucket, c.key)

\* the binding nats.kv.put(bucket, key, value): the store afterwards
kvPutFn(store, c, idx) == KvPut(store, Bucket, c.key, Entry(c.data, idx))

\* the binding nats.kv.delete(bucket, key): the store afterwards
kvDeleteFn(store, c) == KvDelete(store, Bucket, c.key)

\* one call c of a binding by the run of a script for the event of binlog
\* index idx, the server having received the messages server and holding
\* the store: the call succeeds (ok), or it fails without effect and
\* throws an error into the script
BindingStep(run, c, server, store, idx, ok) ==
  IF ~ok
  THEN [run |-> IF Catches(run.script) THEN [run EXCEPT !.at = @ + 1]
                ELSE [run EXCEPT !.failed = TRUE],
        server |-> server, store |-> store]
  ELSE [run |-> [run EXCEPT !.at = @ + 1,
                            !.got = IF c.op = "kv.get" THEN kvGetFn(store, c) ELSE @],
        server |-> IF c.op = "publish" THEN publishFn(server, c, idx) ELSE server,
        store |-> CASE c.op = "kv.put" -> kvPutFn(store, c, idx)
                    [] c.op = "kv.delete" -> kvDeleteFn(store, c)
                    [] OTHER -> store]

ErrEventRejected == "event rejected by transformer"

\* whether json.Marshal can encode the change event: every value of its
\* rows is nil, a number, a string or a byte sequence
Marshalable(event) ==
  \A rows \in {event.Rows, event.OldRows} : \A i \in 1..Len(rows) :
    \A f \in DOMAIN rows[i] :
      rows[i][f].k \in {"nil", "int", "string", "bytes", "null", "number", "base64"}

\* the change event transformWithJavaScript extracts from the object the
\* script returned; the object itself is kept as RawJSON
ExtractEvent(resultMap) ==
  [Type |-> IF "type" \in DOMAIN resultMap THEN resultMap.type ELSE "",
   Database |-> IF "database" \in DOMAIN resultMap THEN resultMap.database ELSE "",
   Table |-> IF "table" \in DOMAIN resultMap THEN resultMap.table ELSE "",
   Timestamp |-> IF "timestamp" \in DOMAIN resultMap THEN resultMap.timestamp ELSE 0,
   Rows |-> IF "rows" \in DOMAIN resultMap THEN resultMap.rows ELSE << >>,
   OldRows |-> IF "old_rows" \in DOMAIN resultMap THEN resultMap.old_rows ELSE << >>,
   RawJSON |-> [present |-> TRUE, obj |-> resultMap]]

\* a variant without the check for null and undefined: the result goes
\* through the JSON round trip like any other
transformWithJavaScript_NoNullCheck(event, result) ==
  IF ~Marshalable(event)
  THEN [err |-> "failed to marshal event to JSON", event |-> NoEvent]
  ELSE CASE result.k = "bindings_error" ->
              [err |-> "failed to setup bindings", event |-> NoEvent]
         [] result.k = "run_error" ->
              [err |-> "failed to execute JavaScript script", event |-> NoEvent]
         [] result.k = "no_function" ->
              [err |-> "script must export a function", event |-> NoEvent]
         [] result.k = "parse_error" ->
              [err |-> "failed to parse event JSON", event |-> NoEvent]
         [] result.k = "throw" ->
              [err |-> "JavaScript transform function error", event |-> NoEvent]
         [] result.k = "function" ->
              [err |-> "failed to marshal result", event |-> NoEvent]
         [] result.k = "number" ->
              [err |-> "failed to unmarshal result", event |-> NoEvent]
         [] OTHER ->
              [err |-> None, event |-> ExtractEvent(result.obj)]

\* transformWithJavaScript, for one way the run of the script can go
transformWithJavaScript(event, result) ==
  IF ~Marshalable(event)
  THEN [err |-> "failed to marshal event to JSON", event |-> NoEvent]
  ELSE CASE result.k = "bindings_error" ->
              [err |-> "failed to setup bindings", event |-> NoEvent]
         [] result.k = "run_error" ->
              [err |-> "failed to execute JavaScript script", event |-> NoEvent]
         [] result.k = "no_function" ->
              [err |-> "script must export a function", event |-> NoEvent]
         [] result.k = "parse_error" ->
              [err |-> "failed to parse event JSON", event |-> NoEvent]
         [] result.k = "throw" ->
              [err |-> "JavaScript transform function error", event |-> NoEvent]
         [] result.k \in {"null", "undefined"} ->
              [err |-> ErrEventRejected, event |-> NoEvent]
         [] result.k = "function" ->
              [err |-> "failed to marshal result", event |-> NoEvent]
         [] result.k = "number" ->
              [err |-> "failed to unmarshal result", event |-> NoEvent]
         [] OTHER ->
              [err |-> None, event |-> ExtractEvent(result.obj)]

\* the ways the run of the script can go when Transform of transformer t is
\* called with the event
ScriptCalls(t, event) ==
  IF t.config.Enabled /\ t.jsScript /\ Marshalable(event)
  THEN {PlainRun(r) : r \in ScriptResults(Marshal(event)) \cup {BindingsFail}}
         \cup {[NotRunning EXCEPT !.script = sc] : sc \in BindingScripts}
  ELSE {PlainRun(NoResult)}

\* Transformer.Transform: the results it can have for an event, given how
\* the run of the script goes if there is one
Transform(t, event, result) ==
  IF ~t.config.Enabled THEN {[err |-> None, event |-> event]}
  ELSE IF t.jsScript
  THEN {transformWithJavaScript(event, result)}
  ELSE IF Len(t.rules) > 0
  THEN transformWithRules(t.rules, event)
  ELSE {[err |-> None, event |-> event]}

(***************************************************************************)
(* The publisher.                                                          *)
(***************************************************************************)
\* a variant that always serializes the change event
Payload_Canonical(event) == Marshal(event)

\* the payload Publisher.Publish hands to the connection
Payload(event) ==
  IF event.RawJSON.present THEN event.RawJSON.obj ELSE Marshal(event)

(***************************************************************************)
(* The state of the pipeline.                                              *)
(***************************************************************************)
VARIABLES
  binlog,       \* the binlog of the source server
  config,       \* the processor section of the configuration
  posFile,      \* the position file: whether it exists, and its content
  received,     \* the messages the NATS server received from the running
                \* process, in order, each with its subject
  kv,           \* the key-value store of the NATS server
  up,           \* whether the process is running
  reader,       \* the Reader: position and currentFile
  session,      \* the replication session: the events the server sends
                \* first (pending), then the binlog from index cursor
  pc,           \* Processor.Start: where the loop is
  cur,          \* the event ReadEvent returned, and the change event made
                \* from it
  tables,       \* Processor.tables
  columnNames,  \* Processor.columnNames
  columnTypes,  \* Processor.columnTypes
  ctxDone,      \* whether the context of Start is cancelled
  mainPc,       \* main: "wait" in its select, or "exit" after cancel()
  h,            \* history, for the properties only
  cv,           \* the input and the result of convertValue (SpecConvert)
  call          \* the input and the result of an operation that is
                \* looked at on its own

vars == << binlog, config, posFile, received, kv, up, reader, session,
           pc, cur, tables, columnNames, columnTypes, ctxDone, mainPc, h, cv, call >>

NoPos == [name |-> << >>, pos |-> 0]

NoFile == [exists |-> FALSE, data |-> << >>]

NoCur == [e |-> Event("none", << >>, 0), idx |-> 0, saved |-> FALSE,
          event |-> NoEvent, run |-> NotRunning]

NoReader == [position |-> NoPos, currentFile |-> << >>]

NoSession == [pending |-> << >>, cursor |-> 0, closed |-> FALSE]

NoCache == [key \in {} |-> << >>]

NoTables == [tid \in {} |-> Event("none", << >>, 0)]

NoCv == [value |-> Nil, j |-> 0, types |-> << >>, done |-> FALSE, out |-> Nil]

NoCall == [op |-> "none", done |-> FALSE]

(***************************************************************************)
(* The source side of a session (BinlogSyncer.StartSync, GetEvent).        *)
(***************************************************************************)
\* the position the server starts from: an empty file name stands for its
\* first binlog file
ServerStart(position) ==
  IF position.name = << >> THEN [name |-> BinlogName(1), pos |-> position.pos]
  ELSE position

\* the first event of the log that ends after position p
FirstAfter(log, p) ==
  IF \E i \in 1..Len(log) : PosLess(p, EndOf(log[i]))
  THEN CHOOSE i \in 1..Len(log) :
         /\ PosLess(p, EndOf(log[i]))
         /\ \A k \in 1..(i - 1) : ~PosLess(p, EndOf(log[k]))
  ELSE Len(log) + 1

\* whether the server has a binlog file of that name with an event that
\* begins at that offset, or with its end there
Known(log, p) ==
  \/ p.pos = StartPosition
       /\ (p.name = BinlogName(1) \/ \E i \in 1..Len(log) : p.name \in {log[i].file, log[i].next})
  \/ \E i \in 1..Len(log) : EndOf(log[i]) = p

\* a session starts with an artificial rotate event that names the start
\* position and, when it starts inside a file, an artificial format
\* description event; both have log_pos 0.  For a start position the
\* server does not have it answers the dump command with an error, which
\* closes the streamer.
StartSync(log, position) ==
  LET start == ServerStart(position)
  IN  IF ~Known(log, start)
      THEN [pending |-> << >>, cursor |-> Len(log) + 1, closed |-> TRUE]
      ELSE [pending |->
              << RotateEvent(<< >>, 0, start.name, start.pos) >>
              \o (IF start.pos > StartPosition THEN << Event("format", << >>, 0) >>
                  ELSE << >>),
            cursor |-> FirstAfter(log, start), closed |-> FALSE]

\* NewReader: the position is loaded from the position file and the
\* session is started there
NewReader(log, file) ==
  LET position == LoadPosition(file, StartPosition)
  IN  [reader |-> [position |-> position, currentFile |-> position.name],
       session |-> StartSync(log, position)]

(***************************************************************************)
(* Reader.SavePosition and Reader.ReadEvent.                               *)
(***************************************************************************)
\* how a call of os.WriteFile ends: the open, which creates the file or
\* truncates it, fails; or the file is opened, written bytes of the data
\* reach it, and ok says whether Write and Close succeeded
OpenFails == [opened |-> FALSE, written |-> 0, ok |-> FALSE]

WriteFails(k) == [opened |-> TRUE, written |-> k, ok |-> FALSE]

WriteOk == [opened |-> TRUE, written |-> 0, ok |-> TRUE]

\* the ways a call of os.WriteFile with the data can end once the file is
\* open; a write that fails leaves none, some or all of the bytes
OpenedOutcomes(data) == {WriteOk} \cup {WriteFails(k) : k \in 0..Len(data)}

WriteOutcomes(data) == {OpenFails} \cup OpenedOutcomes(data)

\* os.WriteFile(name, data, perm) on the file, ending as w says
WriteFile(file, data, w) ==
  IF ~w.opened THEN [err |-> TRUE, file |-> file]
  ELSE IF w.ok THEN [err |-> FALSE, file |-> [exists |-> TRUE, data |-> data]]
  ELSE [err |-> TRUE,
        file |-> [exists |-> TRUE,
                  data |-> SubSeq(data, 1, IF w.written < Len(data) THEN w.written
                                           ELSE Len(data))]]

\* SavePosition(name, pos) on reader r, with the call of os.WriteFile ending
\* as w says.  When the write fails the reader stays as it is; the file is
\* as os.WriteFile left it.
SavePosition(r, file, name, pos, w) ==
  LET n == IF name = << >> THEN r.currentFile ELSE name
      wf == WriteFile(file, FormatPosition(n, pos), w)
  IN  IF n = << >> THEN [err |-> FALSE, wrote |-> FALSE, reader |-> r, file |-> file]
      ELSE IF wf.err THEN [err |-> TRUE, wrote |-> FALSE, reader |-> r, file |-> wf.file]
      ELSE [err |-> FALSE, wrote |-> TRUE,
            reader |-> [position |-> [name |-> n, pos |-> pos], currentFile |-> n],
            file |-> wf.file]

\* a variant that takes the new file name at a rotate event only when its
\* position was written
AfterEvent_RotateIfWritten(r, file, e, w) ==
  IF e.kind = "rotate"
  THEN SavePosition(r, file, e.next, e.npos, w)
  ELSE IF e.logpos > 0
  THEN SavePosition(r, file, r.currentFile, e.logpos, w)
  ELSE [err |-> FALSE, wrote |-> FALSE, reader |-> r, file |-> file]

\* a variant that saves the position of every event, also one whose
\* log_pos is 0
AfterEvent_SavesZero(r, file, e, w) ==
  IF e.kind = "rotate"
  THEN LET r1 == [position |-> [name |-> e.next, pos |-> e.npos],
                  currentFile |-> e.next]
       IN  SavePosition(r1, file, r1.currentFile, r1.position.pos, w)
  ELSE SavePosition(r, file, r.currentFile, e.logpos, w)

\* a variant that keeps the current file name at a rotate event
AfterEvent_KeepsFile(r, file, e, w) ==
  IF e.kind = "rotate"
  THEN LET r1 == [position |-> [name |-> r.currentFile, pos |-> e.npos],
                  currentFile |-> r.currentFile]
       IN  SavePosition(r1, file, e.next, r1.position.pos, w)
  ELSE IF e.logpos > 0
  THEN SavePosition(r, file, r.currentFile, e.logpos, w)
  ELSE [err |-> FALSE, wrote |-> FALSE, reader |-> r, file |-> file]

\* what ReadEvent does to the reader and the position file for event e
AfterEvent(r, file, e, w) ==
  IF e.kind = "rotate"
  THEN LET r1 == [position |-> [name |-> e.next, pos |-> e.npos],
                  currentFile |-> e.next]
       IN  SavePosition(r1, file, r1.currentFile, r1.position.pos, w)
  ELSE IF e.logpos > 0
  THEN SavePosition(r, file, r.currentFile, e.logpos, w)
  ELSE [err |-> FALSE, wrote |-> FALSE, reader |-> r, file |-> file]

(***************************************************************************)
(* History variables, for the properties only.  Of one process run: last   *)
(* (what the last iteration of the loop did), loaded, storedAtStart and    *)
(* startCursor (the position NewReader loaded, the position the file held  *)
(* from the last write before, and where the session started in the        *)
(* binlog), written (the position of the last write of the run that        *)
(* succeeded), script (how the run of the script went in the iteration     *)
(* that ended last) and atCall (while a script runs: how many messages the *)
(* server had received, and what its store held, when Transform was        *)
(* called).  Of all runs: stored (the position of the last write  *)
(* that succeeded, as long as the file holds it), settled (the indices     *)
(* of the row events that were published, or dropped with a log entry)     *)
(* and inHand (the binlog index of the unsettled row event that the loop   *)
(* had read but not yet handled when the process last stopped, 0 if        *)
(* none).  A received message is tagged with the binlog index of the event *)
(* its data was made from and with who published it.                       *)
(***************************************************************************)
NoMark == [n |-> 0, store |-> NoStore]

NewRun(hist, position, cursor) ==
  [hist EXCEPT !.last = "none", !.script = "none", !.atCall = NoMark,
               !.written = NoPos,
               !.storedAtStart = hist.stored,
               !.loaded = position, !.startCursor = cursor]

InitHistory ==
  [last |-> "none", script |-> "none", atCall |-> NoMark, written |-> NoPos,
   storedAtStart |-> NoPos, loaded |-> NoPos, startCursor |-> 0,
   stored |-> NoPos, settled |-> {}, inHand |-> 0]

\* the level at which the loop logs what it did
Level(last) ==
  CASE last \in {"read_error", "decode_error", "transform_error", "publish_error"} -> "error"
    [] last \in {"rejected", "published", "rotate"} -> "info"
    [] last \in {"tablemap", "other"} -> "debug"
    [] OTHER -> "none"

\* a variant that sleeps after every failed read
Backoff_Always(last) ==
  IF last \in {"read_error", "timeout"} THEN BackoffSeconds ELSE 0

\* the seconds the loop sleeps before it goes back to its top: after a
\* timeout of the read it continues at once, after another error of the
\* read it sleeps first
Backoff(last) == IF last = "read_error" THEN BackoffSeconds ELSE 0

(***************************************************************************)
(* The pipeline: main, Processor.Start and the environment.  The loop of   *)
(* Start is at its "top" (the select on the context), "reading" (inside    *)
(* ReadEvent, waiting in GetEvent), "saving" (inside ReadEvent, the        *)
(* position file opened and truncated by os.WriteFile, its bytes not yet   *)
(* written), has an event that ReadEvent returned ("have"), has "decoded"  *)
(* a row event, is inside Transform with the script at a call of a binding *)
(* or about to return ("scripting"), has "transformed" the event, is       *)
(* "sleeping" after a failed read, or has "returned".  The context is looked at at the top only: main can  *)
(* cancel it, and the process can end, between any two of these steps.     *)
(* The Close calls main has deferred act on the loop through the failures  *)
(* every step can have anyway: of the read, the query and the publish.     *)
(***************************************************************************)
\* the binlogs on which the pipeline with a script is followed through the
\* stops and restarts of the process: the ones with one row event
ScriptBinlogs ==
  {log \in Binlogs : Cardinality({i \in 1..Len(log) : log[i].kind = "rows"}) = 1}

Init ==
  /\ binlog \in Binlogs
  /\ config \in Configs
  /\ config = ScriptConfig => binlog \in ScriptBinlogs
  /\ posFile = NoFile
  /\ received = << >>
  /\ kv = NoStore
  /\ up = TRUE
  /\ reader = NewReader(binlog, NoFile).reader
  /\ session = NewReader(binlog, NoFile).session
  /\ pc = "top"
  /\ cur = NoCur
  /\ tables = NoTables
  /\ columnNames = NoCache
  /\ columnTypes = NoCache
  /\ ctxDone = FALSE
  /\ mainPc = "wait"
  /\ h = NewRun(InitHistory, NewReader(binlog, NoFile).reader.position,
                NewReader(binlog, NoFile).session.cursor)
  /\ cv = NoCv
  /\ call = NoCall

\* whether the session has an event to deliver
HasEvent == session.pending # << >> \/ session.cursor <= Len(binlog)

\* the transformer of the running process: main went on because
\* NewTransformer accepted the script file, if the configuration names one
Transformer == NewTransformer(config, "valid").t

\* the version of the schema after the last change the binlog shows
LastVersion(log) ==
  IF \E i \in 1..Len(log) : log[i].ver = 2 THEN 2 ELSE 1

\* the readings of the clock, and the one the pipeline is followed with
Clock == {1700000000, 1700000001}

PipelineClock == {1700000000}

\* the cuts of the text that a failed or interrupted write of the position
\* file leaves in the pipeline: nothing, or all but the last byte
Cuts(data) == {0, Len(data) - 1}

\* the text ReadEvent writes into the position file for the event
PositionText(r, file, e) == AfterEvent(r, file, e, WriteOk).file.data

\* Start, the top of the loop: the select finds the context not cancelled
\* and the loop calls ReadEvent, which waits in GetEvent
CallReadEvent ==
  /\ up /\ pc = "top" /\ ~ctxDone
  /\ pc' = "reading"
  /\ h' = [h EXCEPT !.script = "none"]
  /\ UNCHANGED << binlog, config, posFile, received, kv, up, reader, session, cur,
                  tables, columnNames, columnTypes, ctxDone, mainPc, cv, call >>

\* ReadEvent, GetEvent returns an event: whether or not the context of
\* Start was cancelled meanwhile.  The reader takes the file name of a
\* rotate event; if the position is to be saved os.WriteFile is called, and
\* either its open fails and ReadEvent returns the event, or the file is
\* open and empty and its bytes are still to be written.  AfterEvent with a
\* failing open gives the reader of both cases, and whether a write is made.
ReadEvent ==
  /\ up /\ pc = "reading"
  /\ ~session.closed
  /\ HasEvent
  /\ LET artificial == session.pending # << >>
         e == IF artificial THEN Head(session.pending) ELSE binlog[session.cursor]
         idx == IF artificial THEN 0 ELSE session.cursor
         sv == AfterEvent(reader, posFile, e, OpenFails)
     IN  /\ reader' = sv.reader
         /\ session' = IF artificial
                       THEN [session EXCEPT !.pending = Tail(session.pending)]
                       ELSE [session EXCEPT !.cursor = session.cursor + 1]
         /\ cur' = [e |-> e, idx |-> idx, saved |-> FALSE, event |-> NoEvent,
                    run |-> NotRunning]
         /\ \E opened \in BOOLEAN :
              IF sv.err /\ opened
              THEN /\ posFile' = [exists |-> TRUE, data |-> << >>]
                   /\ pc' = "saving"
                   /\ h' = [h EXCEPT !.stored = NoPos]
              ELSE /\ posFile' = sv.file
                   /\ pc' = "have"
                   /\ h' = [h EXCEPT !.last = "event"]
  /\ UNCHANGED << binlog, config, received, kv, up, tables, columnNames,
                  columnTypes, ctxDone, mainPc, cv, call >>

\* ReadEvent, os.WriteFile on the open position file ends: all bytes are
\* written and the file is closed, or the write fails and leaves a part of
\* them, which ReadEvent logs as a warning; then it returns the event
WritePosition ==
  /\ up /\ pc = "saving"
  /\ \E w \in OpenedOutcomes(PositionText(reader, posFile, cur.e)) :
       /\ w.ok \/ w.written \in Cuts(PositionText(reader, posFile, cur.e))
       /\ LET sv == AfterEvent(reader, posFile, cur.e, w)
          IN  /\ reader' = sv.reader
              /\ posFile' = sv.file
              /\ cur' = [cur EXCEPT !.saved = sv.wrote]
              /\ h' = [h EXCEPT !.last = "event",
                                !.stored = IF sv.wrote THEN sv.reader.position ELSE @,
                                !.written = IF sv.wrote THEN sv.reader.position ELSE @]
  /\ pc' = "have"
  /\ UNCHANGED << binlog, config, received, kv, up, session, tables, columnNames,
                  columnTypes, ctxDone, mainPc, cv, call >>

\* ReadEvent, GetEvent gives up after its ten seconds, which the network
\* and the server decide: the loop goes on at once
ReadTimeout ==
  /\ up /\ pc = "reading"
  /\ ~session.closed
  /\ pc' = IF Backoff("timeout") > 0 THEN "sleeping" ELSE "top"
  /\ h' = [h EXCEPT !.last = "timeout"]
  /\ UNCHANGED << binlog, config, posFile, received, kv, up, reader, session,
                  cur, tables, columnNames, columnTypes, ctxDone, mainPc, cv, call >>

\* ReadEvent, GetEvent fails otherwise: the error is logged and the loop
\* sleeps a second, with the streamer it has.  The error either passes or
\* has closed the streamer, which then gives an error to every later
\* GetEvent.
ReadError ==
  /\ up /\ pc = "reading"
  /\ \E fatal \in BOOLEAN :
       session' = [session EXCEPT !.closed = @ \/ fatal]
  /\ pc' = IF Backoff("read_error") > 0 THEN "sleeping" ELSE "top"
  /\ h' = [h EXCEPT !.last = "read_error"]
  /\ UNCHANGED << binlog, config, posFile, received, kv, up, reader,
                  cur, tables, columnNames, columnTypes, ctxDone, mainPc, cv, call >>

\* Start, the sleep after a failed read ends
WakeUp ==
  /\ up /\ pc = "sleeping"
  /\ pc' = "top"
  /\ UNCHANGED << binlog, config, posFile, received, kv, up, reader, session, cur,
                  tables, columnNames, columnTypes, ctxDone, mainPc, h, cv, call >>

\* Start, the rest of the iteration for a table map event
HandleTableMap ==
  /\ up /\ pc = "have" /\ cur.e.kind = "tablemap"
  /\ tables' = [tid \in DOMAIN tables \cup {cur.e.tid} |->
                  IF tid = cur.e.tid THEN cur.e ELSE tables[tid]]
  /\ pc' = "top"
  /\ h' = [h EXCEPT !.last = "tablemap"]
  /\ UNCHANGED << binlog, config, posFile, received, kv, up, reader, session,
                  cur, columnNames, columnTypes, ctxDone, mainPc, cv, call >>

\* Start, the rest of the iteration for a rotate, query, XID or other event
HandleOther ==
  /\ up /\ pc = "have" /\ cur.e.kind \notin {"tablemap", "rows"}
  /\ pc' = "top"
  /\ h' = [h EXCEPT !.last = IF cur.e.kind = "rotate" THEN "rotate" ELSE "other"]
  /\ UNCHANGED << binlog, config, posFile, received, kv, up, reader, session,
                  cur, tables, columnNames, columnTypes, ctxDone, mainPc, cv, call >>

\* what the iteration for a row event comes to when Transform returns tr
\* with an error
TransformOutcome(tr) ==
  IF tr.err = ErrEventRejected THEN "rejected" ELSE "transform_error"

\* a variant in which Start returns the error of a failed publish
AfterRow_ReturnsPublishError(outcome) ==
  IF outcome = "publish_error" THEN "returned" ELSE "top"

\* a variant in which Start returns the error of a failed transform
AfterRow_ReturnsError(outcome) ==
  IF outcome = "transform_error" THEN "returned" ELSE "top"

\* where Start goes on after the iteration for a row event: every branch
\* ends the iteration and goes back to the top of the loop
AfterRow(outcome) == "top"

\* the history when the iteration for the row event in hand ends
Settle(hist, outcome) ==
  [hist EXCEPT !.last = outcome, !.settled = @ \cup {cur.idx}]

\* Start, a row event in hand: ProcessRowEvent.  dbOk says whether the
\* query on the catalog succeeds, ver is the version of the schema the
\* server has when the query is made, not before the one it had when it
\* logged the event, and now is the time
HandleRows ==
  /\ up /\ pc = "have" /\ cur.e.kind = "rows"
  /\ \E dbOk \in BOOLEAN, ver \in cur.e.ver..LastVersion(binlog),
        now \in PipelineClock :
       LET dec == ProcessRowEvent(cur.e, cur.e.etype, tables, columnNames,
                                  columnTypes, CatalogAt(ver), dbOk, now)
       IN  /\ columnNames' = dec.columnNames
           /\ columnTypes' = dec.columnTypes
           /\ IF dec.err = None
              THEN /\ pc' = "decoded"
                   /\ cur' = [cur EXCEPT !.event = dec.event]
                   /\ h' = h
              ELSE /\ pc' = AfterRow("decode_error")
                   /\ cur' = cur
                   /\ h' = Settle(h, "decode_error")
  /\ UNCHANGED << binlog, config, posFile, received, kv, up, reader, session,
                  tables, ctxDone, mainPc, cv, call >>

\* Transform has returned tr for the row event in hand, the run of the
\* script having come to k: Start goes on to Publish, or ends the iteration
TransformDone(tr, k) ==
  IF tr.err = None
  THEN /\ pc' = "transformed"
       /\ cur' = [cur EXCEPT !.event = tr.event, !.run = NotRunning]
       /\ h' = [h EXCEPT !.script = k, !.atCall = NoMark]
  ELSE /\ pc' = AfterRow(TransformOutcome(tr))
       /\ cur' = [cur EXCEPT !.event = NoEvent, !.run = NotRunning]
       /\ h' = [Settle(h, TransformOutcome(tr)) EXCEPT !.script = k, !.atCall = NoMark]

\* Start, a row event decoded: Transform is called.  Without a script, and
\* with a script whose function calls no binding, it returns without
\* having dealt with the server; otherwise the script is at its first call
\* of a binding
TransformRows ==
  /\ up /\ pc = "decoded"
  /\ \E run \in ScriptCalls(Transformer, cur.event) :
       LET c == ScriptNext(run, Marshal(cur.event))
       IN  IF c.op = "return"
           THEN \E tr \in Transform(Transformer, cur.event, [k |-> c.k, obj |-> c.data]) :
                  TransformDone(tr, c.k)
           ELSE /\ pc' = "scripting"
                /\ cur' = [cur EXCEPT !.run = run]
                /\ h' = [h EXCEPT !.atCall = [n |-> Len(received), store |-> kv]]
  /\ UNCHANGED << binlog, config, posFile, received, kv, up, reader, session,
                  tables, columnNames, columnTypes, ctxDone, mainPc, cv, call >>

\* Transform, the script at a call of a binding: nats.publish hands the
\* message to the connection, nats.kv.get, nats.kv.put and nats.kv.delete
\* wait for the answer of the server; ok says whether the call succeeds
BindingCall ==
  /\ up /\ pc = "scripting"
  /\ LET c == ScriptNext(cur.run, Marshal(cur.event))
     IN  /\ c.op # "return"
         /\ \E ok \in BOOLEAN :
              LET b == BindingStep(cur.run, c, received, kv, cur.idx, ok)
              IN  /\ cur' = [cur EXCEPT !.run = b.run]
                  /\ received' = b.server
                  /\ kv' = b.store
  /\ UNCHANGED << binlog, config, posFile, up, reader, session, pc,
                  tables, columnNames, columnTypes, ctxDone, mainPc, h, cv, call >>

\* Transform, the function of the script has ended: transformWithJavaScript
\* returns what it made of the result
TransformReturns ==
  /\ up /\ pc = "scripting"
  /\ LET c == ScriptNext(cur.run, Marshal(cur.event))
     IN  /\ c.op = "return"
         /\ \E tr \in Transform(Transformer, cur.event, [k |-> c.k, obj |-> c.data]) :
              TransformDone(tr, c.k)
  /\ UNCHANGED << binlog, config, posFile, received, kv, up, reader, session,
                  tables, columnNames, columnTypes, ctxDone, mainPc, cv, call >>

\* Start, a row event transformed: Publish; pubOk says whether the
\* connection takes the message
PublishRows ==
  /\ up /\ pc = "transformed"
  /\ \E pubOk \in BOOLEAN :
       LET o == IF pubOk THEN "published" ELSE "publish_error"
       IN  /\ received' =
                IF pubOk
                THEN Publish(received,
                             Message(Subject, Payload(cur.event), cur.idx, "publisher"))
                ELSE received
           /\ pc' = AfterRow(o)
           /\ h' = Settle(h, o)
  /\ cur' = [cur EXCEPT !.event = NoEvent]
  /\ UNCHANGED << binlog, config, posFile, kv, up, reader, session,
                  tables, columnNames, columnTypes, ctxDone, mainPc, cv, call >>

\* Start returns when it finds the context cancelled at the top of the loop
StartReturns ==
  /\ up /\ pc = "top" /\ ctxDone
  /\ pc' = "returned"
  /\ UNCHANGED << binlog, config, posFile, received, kv, up, reader, session,
                  cur, tables, columnNames, columnTypes, ctxDone, mainPc, h, cv, call >>

\* main receives SIGINT or SIGTERM and cancels the context
Signal ==
  /\ up /\ mainPc = "wait"
  /\ ctxDone' = TRUE
  /\ mainPc' = "exit"
  /\ UNCHANGED << binlog, config, posFile, received, kv, up, reader, session,
                  pc, cur, tables, columnNames, columnTypes, h, cv, call >>

\* what is left when the process is gone: the position file, the store
\* of the server and the history of all runs.  A process that ends while os.WriteFile has the
\* position file open leaves it empty or with a part of the text.
Stopped ==
  /\ up' = FALSE
  /\ pc' = "top"
  /\ cur' = NoCur
  /\ tables' = NoTables
  /\ columnNames' = NoCache
  /\ columnTypes' = NoCache
  /\ ctxDone' = FALSE
  /\ mainPc' = "wait"
  /\ reader' = NoReader
  /\ session' = NoSession
  /\ received' = << >>
  /\ IF pc = "saving"
     THEN \E k \in Cuts(PositionText(reader, posFile, cur.e)) :
            posFile' = AfterEvent(reader, posFile, cur.e, WriteFails(k)).file
     ELSE posFile' = posFile
  /\ h' = [NewRun(h, NoPos, 0) EXCEPT !.inHand =
                IF /\ pc \in {"saving", "have", "decoded", "scripting", "transformed"}
                   /\ cur.e.kind = "rows" /\ cur.idx \notin h.settled
                THEN cur.idx ELSE 0]
  /\ UNCHANGED << binlog, config, kv, cv, call >>

\* main returns after cancel(), without waiting for Start: the process
\* ends wherever the loop is
Exit ==
  /\ up /\ mainPc = "exit"
  /\ Stopped

\* the process is killed
Crash ==
  /\ up /\ mainPc = "wait"
  /\ Stopped

\* another client of the server deletes a key of the bucket
OtherDelete ==
  /\ \E p \in DOMAIN kv : kv' = KvDelete(kv, p[1], p[2])
  /\ UNCHANGED << binlog, config, posFile, received, up, reader, session, pc, cur,
                  tables, columnNames, columnTypes, ctxDone, mainPc, h, cv, call >>

\* the process is started again: a new reader on the position file
Restart ==
  /\ ~up
  /\ up' = TRUE
  /\ reader' = NewReader(binlog, posFile).reader
  /\ session' = NewReader(binlog, posFile).session
  /\ h' = NewRun(h, NewReader(binlog, posFile).reader.position,
                 NewReader(binlog, posFile).session.cursor)
  /\ UNCHANGED << binlog, config, posFile, received, kv, pc, cur, tables, columnNames,
                  columnTypes, ctxDone, mainPc, cv, call >>

Next ==
  \/ CallReadEvent
  \/ ReadEvent
  \/ WritePosition
  \/ ReadTimeout
  \/ ReadError
  \/ WakeUp
  \/ HandleTableMap
  \/ HandleOther
  \/ HandleRows
  \/ TransformRows
  \/ BindingCall
  \/ TransformReturns
  \/ PublishRows
  \/ StartReturns
  \/ Signal
  \/ Exit
  \/ Crash
  \/ OtherDelete
  \/ Restart

Spec == Init /\ [][Next]_vars

(***************************************************************************)
(* Properties of the pipeline.                                             *)
(***************************************************************************)
\* the position the position file holds
FilePosition == LoadPosition(posFile, StartPosition)

\* the messages the sink received: those on its subject
SinkReceived == SelectSeq(received, LAMBDA m : m.subject = Subject)

\* the messages the publisher of the pipeline sent
Published == SelectSeq(received, LAMBDA m : m.via = "publisher")

\* Transform returns for the row event in hand
Transformed ==
  /\ up /\ pc \in {"decoded", "scripting"}
  /\ up' /\ pc' \notin {"decoded", "scripting"}

\* the messages the server has received since Transform was called, and
\* what its store held then
SinceCall ==
  IF pc = "scripting" THEN SubSeq(received, h.atCall.n + 1, Len(received)) ELSE << >>

StoreAtCall == IF pc = "scripting" THEN h.atCall.store ELSE kv

\* whether every message the server received since Transform was called
\* is one the script published through its bindings
OnlyScriptSent ==
  /\ received' = received
  /\ \A i \in 1..Len(SinceCall) : SinceCall[i].via = "script"

\* C1: across a stop and a restart on the same position file no row event
\* is lost: a row event that Start had read but neither published nor
\* dropped with a log entry when the process stopped is delivered again by
\* the session of the next run.
C1_NoRowEventLost ==
  (up /\ h.inHand > 0) => h.startCursor <= h.inHand

\* C2: at every moment the position in the position file is at or after
\* the end of the last event whose publish to the sink has completed.
C2_FileCoversPublished ==
  Published # << >> =>
    /\ posFile.exists
    /\ PosLE(EndOf(binlog[Published[Len(Published)].idx]), FilePosition)

\* C3: when the process starts on a position file that holds the position
\* P written last, the reader resumes at exactly P, and every event of
\* the binlog that ends after P is delivered by the new session.
C3_ResumeAtStored ==
  (up /\ h.storedAtStart # NoPos) =>
    /\ h.loaded = h.storedAtStart
    /\ \A i \in 1..Len(binlog) :
         PosLess(h.storedAtStart, EndOf(binlog[i])) => h.startCursor <= i

\* a restart inside the binlog: events before and after P, and the first
\* one after P has been delivered again
C3_Witness ==
  /\ up /\ h.storedAtStart # NoPos
  /\ h.startCursor > 1 /\ h.startCursor <= Len(binlog)
  /\ session.cursor > h.startCursor

\* C4: the positions written to the position file during one run never
\* decrease: every write that succeeds writes a position equal to or later
\* than the one of the write that succeeded before it (a later file, or
\* the same file and an offset at least as large).
C4_PositionNeverDecreases ==
  [][(up /\ up' /\ h.written # NoPos /\ h'.written # h.written) =>
       PosLE(h.written, h'.written)]_vars

\* the run has written an offset inside the second binlog file: a position
\* of the first file was replaced at the rotation, and that one again
C4_Witness ==
  /\ up /\ posFile.exists
  /\ h.written = FilePosition
  /\ h.written.name = BinlogName(2)
  /\ h.written.pos > StartPosition

\* C5 as stated: the sink receives the events of one run in the order of
\* the binlog: an event earlier in the binlog is never received after a
\* later one.
C5_ReceivedInBinlogOrder ==
  \A i \in 1..Len(SinkReceived) : \A j \in 1..Len(SinkReceived) :
    i < j => SinkReceived[i].idx <= SinkReceived[j].idx

\* C5: the events the publisher of the pipeline sends to the sink are in
\* the order of the binlog, and they are all the sink receives unless a
\* script publishes on the subject of the sink through its bindings.
C5_PublishedInBinlogOrder ==
  /\ \A i \in 1..Len(Published) : \A j \in 1..Len(Published) :
       i < j => Published[i].idx < Published[j].idx
  /\ (\A i \in 1..Len(SinkReceived) : SinkReceived[i].via = "publisher")
       => SinkReceived = Published

\* two row events received in one run from the publisher, and a message
\* of a script on another subject besides
C5_Witness ==
  /\ Len(Published) >= 2
  /\ SinkReceived = Published
  /\ Len(received) > Len(Published)

\* C6 as stated: when the script returns null or undefined for an event,
\* the sink receives no message for it, what is logged is not an error,
\* and the loop goes on with the next event.
C6_RejectedNothingReceived ==
  [][(Transformed /\ h'.script \in {"null", "undefined"}) =>
       /\ SinkReceived' = SinkReceived
       /\ \A i \in 1..Len(SinceCall) : SinceCall[i].subject # Subject
       /\ h'.last = "rejected"
       /\ Level(h'.last) # "error"
       /\ pc' = "top" /\ ctxDone' = ctxDone /\ mainPc' = mainPc]_vars

\* C6: when the script returns null or undefined for an event, the
\* pipeline publishes nothing for it (the server receives what the script
\* itself published through its bindings, and nothing else), what is
\* logged is not an error, and the loop goes on with the next event.
C6_RejectedIsDropped ==
  [][(Transformed /\ h'.script \in {"null", "undefined"}) =>
       /\ OnlyScriptSent
       /\ h'.last = "rejected"
       /\ Level(h'.last) # "error"
       /\ pc' = "top" /\ ctxDone' = ctxDone /\ mainPc' = mainPc]_vars

\* the script has just rejected an event without publishing anything, and
\* the loop can read the next
C6_Witness ==
  /\ up /\ pc = "top" /\ h.script \in {"null", "undefined"}
  /\ h.last = "rejected" /\ HasEvent /\ ~ctxDone
  /\ received = << >>

\* C7 as stated: when the script throws, or returns something that cannot
\* be turned into an event, the event is dropped with an error log and the
\* loop goes on as if the event had been none: nothing of the processor,
\* the reader or the server changes.
C7_TransformErrorLeavesNoTrace ==
  [][(Transformed /\ h'.script \in {"throw", "function", "number"}) =>
       /\ received' = received /\ SinceCall = << >>
       /\ kv' = kv /\ kv = StoreAtCall
       /\ h'.last = "transform_error"
       /\ Level(h'.last) = "error"
       /\ pc' = "top"
       /\ UNCHANGED << posFile, reader, session, tables, ctxDone, mainPc >>]_vars

\* C7: when the script throws, or returns something that cannot be turned
\* into an event, the pipeline publishes nothing for the event, logs an
\* error and goes on with the next event: nothing of the processor, the
\* reader or the position file changes, and the server has received only
\* what the script itself published through its bindings before.
C7_TransformErrorIsContained ==
  /\ [][(Transformed /\ h'.script \in {"throw", "function", "number"}) =>
          /\ OnlyScriptSent
          /\ h'.last = "transform_error"
          /\ Level(h'.last) = "error"
          /\ pc' = "top"
          /\ UNCHANGED << posFile, reader, session, tables, ctxDone, mainPc >>]_vars
  /\ [][(up /\ pc = "scripting" /\ up') =>
          UNCHANGED << posFile, reader, session, tables, columnNames, columnTypes >>]_vars

\* the script has just failed on a row event without publishing anything,
\* and the loop can read the next event
C7_Witness ==
  /\ up /\ pc = "top" /\ h.script \in {"throw", "function", "number"}
  /\ h.last = "transform_error" /\ HasEvent /\ ~ctxDone
  /\ received = << >>

\* C8 as stated: every UPDATE event the sink receives has as many rows as
\* old rows, and at least one.
C8_UpdateRowsPaired ==
  \A i \in 1..Len(SinkReceived) :
    SinkReceived[i].data.type = "UPDATE" =>
      /\ "old_rows" \in DOMAIN SinkReceived[i].data
      /\ Len(SinkReceived[i].data.rows) = Len(SinkReceived[i].data.old_rows)
      /\ Len(SinkReceived[i].data.rows) >= 1

\* without a script, the sink has received the UPDATE made from a row
\* event of a single tuple, which is no pair: it has no row, and no
\* old_rows field
C8_Witness ==
  /\ ~(config.Enabled /\ config.Script)
  /\ \E i \in 1..Len(SinkReceived) :
       /\ SinkReceived[i].data.type = "UPDATE"
       /\ Len(binlog[SinkReceived[i].idx].rows) = 1
       /\ Len(SinkReceived[i].data.rows) = 0
       /\ "old_rows" \notin DOMAIN SinkReceived[i].data

\* C9 as stated: every INSERT or DELETE event the sink receives has no
\* old rows and at least one row.
C9_InsertDeleteNoOldRows ==
  \A i \in 1..Len(SinkReceived) :
    SinkReceived[i].data.type \in {"INSERT", "DELETE"} =>
      /\ "old_rows" \notin DOMAIN SinkReceived[i].data
      /\ Len(SinkReceived[i].data.rows) >= 1

\* without a script, the sink has received the INSERT made from a row
\* event of no tuple: it has no row
C9_Witness ==
  /\ ~(config.Enabled /\ config.Script)
  /\ \E i \in 1..Len(SinkReceived) :
       /\ SinkReceived[i].data.type = "INSERT"
       /\ Len(binlog[SinkReceived[i].idx].rows) = 0
       /\ Len(SinkReceived[i].data.rows) = 0
       /\ "old_rows" \notin DOMAIN SinkReceived[i].data

(***************************************************************************)
(* The conversion of column values on its own: convertValue applied to a   *)
(* value, a column and the types of the columns.                           *)
(***************************************************************************)
\* the values a column of a row event can hold: NULL, an integer, a
\* string, byte sequences of lengths around the limit of the code, and
\* the two bytes that encode the one character e with an acute accent
ConvertValues ==
  { Nil, IntVal(7), String(Bytes("s", 2)),
    Bytes("b", 0), Bytes("b", 3), Bytes("b", TextSizeLimit - 1),
    Bytes("b", TextSizeLimit), Bytes("b", TextSizeLimit + 1),
    Bytes("e_acute", 2) }

\* the COLUMN_TYPE texts of the columns
ConvertTypes ==
  { TypeInt, TypeText, TypeBlob,
    << "T", "e", "x", "t" >>,
    << "l", "o", "n", "g", "t", "e", "x", "t" >>,
    << "t", "i", "n", "y", "b", "l", "o", "b" >> }

InitConvert ==
  /\ binlog = << >>
  /\ config = DisabledConfig
  /\ posFile = NoFile
  /\ received = << >>
  /\ kv = NoStore
  /\ up = FALSE
  /\ reader = NoReader
  /\ session = NoSession
  /\ pc = "top"
  /\ cur = NoCur
  /\ tables = NoTables
  /\ columnNames = NoCache
  /\ columnTypes = NoCache
  /\ ctxDone = FALSE
  /\ mainPc = "wait"
  /\ h = InitHistory
  /\ call = NoCall
  /\ \E value \in ConvertValues, j \in 1..MaxColumns, n \in 0..MaxColumns :
       \E types \in [1..n -> ConvertTypes] :
         cv = [value |-> value, j |-> j, types |-> types, done |-> FALSE, out |-> Nil]

\* ProcessRowEvent converts the value of column j
Convert ==
  /\ ~cv.done
  /\ cv' = [cv EXCEPT !.done = TRUE,
                      !.out = convertValue(cv.value, cv.j, cv.types)]
  /\ UNCHANGED << binlog, config, posFile, received, kv, up, reader, session,
                  pc, cur, tables, columnNames, columnTypes, ctxDone, mainPc, h,
                  call >>

NextConvert == Convert

SpecConvert == InitConvert /\ [][NextConvert]_vars

\* C10: with the type of the column known, NULL is emitted as nil, a byte
\* sequence is emitted as a string if and only if the upper-cased type
\* text contains TEXT and is else emitted unchanged, and a value of any
\* other kind is emitted unchanged.
C10_CoercionByType ==
  (cv.done /\ cv.j <= Len(cv.types)) =>
    cv.out = IF cv.value.k = "bytes" /\ Contains(ToUpper(cv.types[cv.j]), TEXT)
             THEN String(cv.value)
             ELSE cv.value

\* utf8.RuneCount of a byte sequence of the model: its bytes are one-byte
\* characters, but for the one two-byte character
RuneCount(b) == IF b.id = "e_acute" THEN 1 ELSE b.n

\* C31: a byte sequence that the type of its column does not make a text
\* is turned into a string only if the column has no type information,
\* the sequence is shorter than 64 KiB and has as many runes as bytes;
\* every other such byte sequence is emitted as it is.
C31_HeuristicFallbackOnly ==
  (/\ cv.done /\ cv.value.k = "bytes"
   /\ ~(cv.j <= Len(cv.types) /\ Contains(ToUpper(cv.types[cv.j]), TEXT)))
    => IF cv.out = String(cv.value)
       THEN /\ cv.j > Len(cv.types)
            /\ cv.value.n < 64 * 1024
            /\ RuneCount(cv.value) = cv.value.n
       ELSE cv.out = cv.value

(***************************************************************************)
(* The rules of the transformer on their own: main validates the           *)
(* processor section with ValidateRules, builds the transformer from it    *)
(* and the loop hands events to Transform.                                 *)
(***************************************************************************)
StaticValue == [k |-> "string", n |-> 9, id |-> "mysql-cdc"]

\* the rules the configurations are made of
RulePool ==
  { [Database |-> "SHOP", Table |-> "Orders",
     Include |-> << >>, Exclude |-> << "BLOB_COL" >>,
     Rename |-> [code |-> "order_code"], AddFields |-> [source |-> StaticValue]],
    [Database |-> "", Table |-> "",
     Include |-> << "id" >>, Exclude |-> << >>,
     Rename |-> NoFields, AddFields |-> NoFields],
    [Database |-> "shop", Table |-> "",
     Include |-> << "ID", "Code" >>, Exclude |-> << >>,
     Rename |-> [Code |-> "order_code"], AddFields |-> NoFields],
    [Database |-> "", Table |-> "audit",
     Include |-> << >>, Exclude |-> << >>,
     Rename |-> [code |-> "id"], AddFields |-> NoFields],
    [Database |-> "other", Table |-> "",
     Include |-> << >>, Exclude |-> << "id" >>,
     Rename |-> NoFields, AddFields |-> NoFields],
    [Database |-> "", Table |-> "",
     Include |-> << "id" >>, Exclude |-> << "blob_col" >>,
     Rename |-> NoFields, AddFields |-> NoFields],
    [Database |-> "", Table |-> "",
     Include |-> << "id" >>, Exclude |-> << >>,
     Rename |-> [code |-> "order_code"], AddFields |-> NoFields],
    [Database |-> "", Table |-> "",
     Include |-> << >>, Exclude |-> << >>,
     Rename |-> NoFields, AddFields |-> [id |-> StaticValue]],
    [Database |-> "", Table |-> "",
     Include |-> << "code" >>, Exclude |-> << >>,
     Rename |-> NoFields, AddFields |-> [id |-> StaticValue]] }

\* the change events the transformer is tried on
RuleEvents ==
  { [Type |-> "INSERT", Database |-> "shop", Table |-> "orders",
     Timestamp |-> 1700000000,
     Rows |-> << [id |-> IntVal(7), code |-> String(Bytes("x", 1)),
                  blob_col |-> Bytes("bin", 3)] >>,
     OldRows |-> << >>, RawJSON |-> NoRaw],
    [Type |-> "UPDATE", Database |-> "shop", Table |-> "audit",
     Timestamp |-> 1700000001,
     Rows |-> << [id |-> IntVal(8), Code |-> String(Bytes("new", 3))] >>,
     OldRows |-> << [id |-> IntVal(8), Code |-> String(Bytes("old", 3))] >>,
     RawJSON |-> NoRaw],
    [Type |-> "DELETE", Database |-> "crm", Table |-> "users",
     Timestamp |-> 0,
     Rows |-> << [id |-> IntVal(9), code |-> String(Bytes("y", 1))] >>,
     OldRows |-> << >>, RawJSON |-> NoRaw] }

\* the pipeline is not looked at
Idle ==
  /\ binlog = << >>
  /\ config = DisabledConfig
  /\ posFile = NoFile
  /\ received = << >>
  /\ kv = NoStore
  /\ up = FALSE
  /\ reader = NoReader
  /\ session = NoSession
  /\ pc = "top"
  /\ cur = NoCur
  /\ tables = NoTables
  /\ columnNames = NoCache
  /\ columnTypes = NoCache
  /\ ctxDone = FALSE
  /\ mainPc = "wait"
  /\ h = InitHistory
  /\ cv = NoCv

IdleUnchanged ==
  UNCHANGED << binlog, config, posFile, received, kv, up, reader, session, pc, cur,
               tables, columnNames, columnTypes, ctxDone, mainPc, h, cv >>

NoOut == [err |-> None, event |-> NoEvent]

InitRules ==
  /\ Idle
  /\ \E n \in 0..MaxRules, enabled \in BOOLEAN, script \in BOOLEAN,
        scriptFile \in ScriptFiles, event \in RuleEvents :
       \E rules \in [1..n -> RulePool] :
         call = [op |-> "rules",
                 cfg |-> [Enabled |-> enabled, Script |-> script, Rules |-> rules],
                 scriptFile |-> scriptFile, event |-> event,
                 valid |-> "pending", built |-> "pending", t |-> NoTransformer,
                 run |-> NotRunning, result |-> NoResult, out |-> NoOut, done |-> FALSE,
                 published |-> FALSE]

\* main: ValidateRules on the processor section; os.Stat finds every
\* script file but a missing one
ValidateConfig ==
  /\ call.op = "rules" /\ call.valid = "pending"
  /\ call' = [call EXCEPT !.valid = ValidateRules(call.cfg, call.scriptFile # "missing")]
  /\ IdleUnchanged

\* main: NewTransformer on a configuration that ValidateRules accepted;
\* main ends when it returns an error
BuildTransformer ==
  /\ call.op = "rules" /\ call.valid = None /\ call.built = "pending"
  /\ call' = [call EXCEPT !.built = NewTransformer(call.cfg, call.scriptFile).err,
                           !.t = NewTransformer(call.cfg, call.scriptFile).t]
  /\ IdleUnchanged

\* the loop: Transform is called on an event, with the transformer main
\* built.  Without a script, and with a script whose function calls no
\* binding, it returns without having dealt with the server; otherwise the
\* script is at its first call of a binding
TransformEvent ==
  /\ call.op = "rules" /\ call.built = None /\ ~call.done
  /\ call.run = NotRunning
  /\ \E run \in ScriptCalls(call.t, call.event) :
       LET c == ScriptNext(run, Marshal(call.event))
       IN  IF c.op = "return"
           THEN \E tr \in Transform(call.t, call.event, [k |-> c.k, obj |-> c.data]) :
                  call' = [call EXCEPT !.result = [k |-> c.k, obj |-> c.data],
                                       !.out = tr, !.done = TRUE]
           ELSE call' = [call EXCEPT !.run = run]
  /\ IdleUnchanged

\* Transform, the script at a call of a binding; ok says whether the call
\* succeeds
EventBindingCall ==
  /\ call.op = "rules" /\ ~call.done /\ call.run # NotRunning
  /\ LET c == ScriptNext(call.run, Marshal(call.event))
     IN  /\ c.op # "return"
         /\ \E ok \in BOOLEAN :
              LET b == BindingStep(call.run, c, received, kv, 0, ok)
              IN  /\ call' = [call EXCEPT !.run = b.run]
                  /\ received' = b.server
                  /\ kv' = b.store
  /\ UNCHANGED << binlog, config, posFile, up, reader, session, pc, cur, tables,
                  columnNames, columnTypes, ctxDone, mainPc, h, cv >>

\* Transform, the function of the script has ended: transformWithJavaScript
\* returns what it made of the result
TransformEventReturns ==
  /\ call.op = "rules" /\ ~call.done /\ call.run # NotRunning
  /\ LET c == ScriptNext(call.run, Marshal(call.event))
     IN  /\ c.op = "return"
         /\ \E tr \in Transform(call.t, call.event, [k |-> c.k, obj |-> c.data]) :
              call' = [call EXCEPT !.result = [k |-> c.k, obj |-> c.data],
                                   !.out = tr, !.done = TRUE, !.run = NotRunning]
  /\ IdleUnchanged

\* the loop: Publish on the event that Transform returned
PublishEvent ==
  /\ call.op = "rules" /\ call.done /\ call.out.err = None /\ ~call.published
  /\ received' = Publish(received,
                         Message(Subject, Payload(call.out.event), 0, "publisher"))
  /\ call' = [call EXCEPT !.published = TRUE]
  /\ UNCHANGED << binlog, config, posFile, kv, up, reader, session, pc, cur, tables,
                  columnNames, columnTypes, ctxDone, mainPc, h, cv >>

NextRules ==
  \/ ValidateConfig
  \/ BuildTransformer
  \/ TransformEvent
  \/ EventBindingCall
  \/ TransformEventReturns
  \/ PublishEvent

SpecRules == InitRules /\ [][NextRules]_vars

(***************************************************************************)
(* Properties of the rules.                                                *)
(***************************************************************************)
\* the index of the first rule of the configuration that matches the
\* event, 0 if none does
FirstMatch(rules, event) ==
  LET fits(r) == /\ r.Database = "" \/ EqualFold(r.Database, event.Database)
                 /\ r.Table = "" \/ EqualFold(r.Table, event.Table)
  IN  IF \E i \in 1..Len(rules) : fits(rules[i])
      THEN CHOOSE i \in 1..Len(rules) :
             fits(rules[i]) /\ \A k \in 1..(i - 1) : ~fits(rules[k])
      ELSE 0

\* an event has gone through the rules, and one of them matched
RulesApplied ==
  /\ call.op = "rules" /\ call.done
  /\ call.cfg.Enabled /\ ~call.cfg.Script
  /\ FirstMatch(call.cfg.Rules, call.event) > 0

AppliedRule == call.cfg.Rules[FirstMatch(call.cfg.Rules, call.event)]

\* the rows and old rows of the event, each with the row put out for it
InOut ==
  {<< call.event.Rows[i], call.out.event.Rows[i] >> : i \in 1..Len(call.event.Rows)}
  \cup {<< call.event.OldRows[i], call.out.event.OldRows[i] >> :
          i \in 1..Len(call.event.OldRows)}

\* the rule does not let the field through
Dropped(rule, field) ==
  \/ rule.Exclude # << >> /\ Listed(rule.Exclude, field)
  \/ rule.Include # << >> /\ ~Listed(rule.Include, field)

\* the key the code puts the field out under
OutName(rule, field) == OutputKey(field, [rename |-> rule.Rename])

\* C11 as stated: under the matching rule, a field that exclude lists or
\* a non-empty include does not list puts nothing into any output row,
\* and every other field is in the output row with its value.
C11_FieldsFiltered ==
  RulesApplied =>
    \A p \in InOut : \A field \in DOMAIN p[1] :
      IF Dropped(AppliedRule, field)
      THEN \A o \in DOMAIN p[2] : p[2][o] # p[1][field]
      ELSE \E o \in DOMAIN p[2] : p[2][o] = p[1][field]

\* C11: under the matching rule, a field that exclude lists or a
\* non-empty include does not list puts nothing into any output row;
\* every other field is in the output row with its value, under its
\* output key, unless another field that is let through has the same
\* output key.
C11_FieldsFilteredBarringClashes ==
  RulesApplied =>
    \A p \in InOut : \A field \in DOMAIN p[1] :
      IF Dropped(AppliedRule, field)
      THEN \A o \in DOMAIN p[2] : p[2][o] # p[1][field]
      ELSE \/ /\ OutName(AppliedRule, field) \in DOMAIN p[2]
              /\ p[2][OutName(AppliedRule, field)] = p[1][field]
           \/ \E g \in DOMAIN p[1] \ {field} :
                /\ ~Dropped(AppliedRule, g)
                /\ OutName(AppliedRule, g) = OutName(AppliedRule, field)

\* a rule whose include lists Code has let the field code through and
\* dropped another field
C11_Witness ==
  /\ RulesApplied
  /\ \E p \in InOut :
       /\ \E field \in DOMAIN p[1] :
            Dropped(AppliedRule, field) /\ field \notin DOMAIN p[2]
       /\ \E field \in DOMAIN p[1] :
            /\ ~Dropped(AppliedRule, field)
            /\ \E j \in 1..Len(AppliedRule.Include) :
                 AppliedRule.Include[j] # field /\ EqualFold(AppliedRule.Include[j], field)
            /\ \E o \in DOMAIN p[2] : p[2][o] = p[1][field]

\* C12: in rule mode the event is put out as the first rule that matches
\* it alone would put it out, whatever rules follow, and unchanged when no
\* rule matches.
C12_FirstMatchOnly ==
  (call.op = "rules" /\ call.done /\ call.cfg.Enabled /\ ~call.cfg.Script) =>
    IF FirstMatch(call.cfg.Rules, call.event) = 0
    THEN call.out = [err |-> None, event |-> call.event]
    ELSE call.out \in
           transformWithRules(
             NewTransformer([Enabled |-> TRUE, Script |-> FALSE,
                             Rules |-> << AppliedRule >>], "missing").t.rules,
             call.event)

\* two rules match the event, and the output is not one the second would
\* give
C12_Witness ==
  /\ RulesApplied
  /\ Len(call.cfg.Rules) = 2
  /\ FirstMatch(call.cfg.Rules, call.event) = 1
  /\ FirstMatch(<< call.cfg.Rules[2] >>, call.event) = 1
  /\ call.out \notin
       transformWithRules(
         NewTransformer([Enabled |-> TRUE, Script |-> FALSE,
                         Rules |-> << call.cfg.Rules[2] >>], "missing").t.rules,
         call.event)

\* C13: under the matching rule, a field that is let through and whose
\* name equals the source key of a rename entry, ignoring case, is put
\* out under the target of that entry (unless another field that is let
\* through is put out under the same key).
C13_RenameIgnoresCase ==
  RulesApplied =>
    \A p \in InOut : \A field \in DOMAIN p[1] :
      \A key \in DOMAIN AppliedRule.Rename :
        (/\ ~Dropped(AppliedRule, field)
         /\ EqualFold(key, field)
         /\ \A g \in DOMAIN p[1] \ {field} :
              \/ Dropped(AppliedRule, g)
              \/ /\ g # AppliedRule.Rename[key]
                 /\ \A k2 \in DOMAIN AppliedRule.Rename :
                      EqualFold(k2, g) => AppliedRule.Rename[k2] # AppliedRule.Rename[key])
        => /\ AppliedRule.Rename[key] \in DOMAIN p[2]
           /\ p[2][AppliedRule.Rename[key]] = p[1][field]

\* whether the configuration has one of the three defects
Defective(cfg) ==
  \/ \E i \in 1..Len(cfg.Rules) :
       \/ cfg.Rules[i].Include # << >> /\ cfg.Rules[i].Exclude # << >>
       \/ /\ cfg.Rules[i].Include # << >>
          /\ \E key \in DOMAIN cfg.Rules[i].Rename : ~Listed(cfg.Rules[i].Include, key)
  \/ cfg.Script /\ cfg.Rules # << >>

\* C14 as stated: the validation rejects a configuration exactly when
\* some rule has both include and exclude, or some rule has an include
\* that misses a rename key, or script and rules are both there.
C14_RejectsDefective ==
  (call.op = "rules" /\ call.valid # "pending") =>
    (call.valid # None <=> Defective(call.cfg))

\* C14: the validation of an enabled processor section rejects it exactly
\* when it has one of the three defects or names a script file that does
\* not exist; a disabled processor section is accepted as it is.
C14_RejectsDefectiveWhenEnabled ==
  (call.op = "rules" /\ call.valid # "pending") =>
    IF call.cfg.Enabled
    THEN call.valid # None <=>
           (Defective(call.cfg) \/ (call.cfg.Script /\ call.scriptFile = "missing"))
    ELSE call.valid = None

\* an enabled configuration is rejected for a rename key that its include
\* does not list, and for nothing else
C14_Witness ==
  /\ call.op = "rules" /\ call.valid = "rename key not found in include list"
  /\ call.cfg.Enabled /\ ~call.cfg.Script
  /\ \A i \in 1..Len(call.cfg.Rules) :
       ~(call.cfg.Rules[i].Include # << >> /\ call.cfg.Rules[i].Exclude # << >>)

(***************************************************************************)
(* The pipeline on binlogs in which a table is announced again: after a    *)
(* change of its schema, or with its table_id taken over by another table. *)
(***************************************************************************)
SchemaItems ==
  { << "ins_orders", "ins_altered" >>,
    << "ins_orders_named", "ins_altered_named" >>,
    << "ins_orders", "del_audit_reused" >> }

SchemaBinlogs == { Expand(items, 1, StartPosition) : items \in SchemaItems }

InitSchema ==
  /\ binlog \in SchemaBinlogs
  /\ config = DisabledConfig
  /\ posFile = NoFile
  /\ received = << >>
  /\ kv = NoStore
  /\ up = TRUE
  /\ reader = NewReader(binlog, NoFile).reader
  /\ session = NewReader(binlog, NoFile).session
  /\ pc = "top"
  /\ cur = NoCur
  /\ tables = NoTables
  /\ columnNames = NoCache
  /\ columnTypes = NoCache
  /\ ctxDone = FALSE
  /\ mainPc = "wait"
  /\ h = NewRun(InitHistory, NewReader(binlog, NoFile).reader.position,
                NewReader(binlog, NoFile).session.cursor)
  /\ cv = NoCv
  /\ call = NoCall

NextSchema ==
  \/ CallReadEvent
  \/ ReadEvent
  \/ WritePosition
  \/ ReadTimeout
  \/ ReadError
  \/ WakeUp
  \/ HandleTableMap
  \/ HandleOther
  \/ HandleRows
  \/ TransformRows
  \/ PublishRows

SpecSchema == InitSchema /\ [][NextSchema]_vars

(***************************************************************************)
(* One run of the pipeline with a script, on the binlogs with two row      *)
(* events: what the script does at one event can depend on what it did at  *)
(* the one before.                                                         *)
(***************************************************************************)
InitScripted ==
  /\ binlog \in Binlogs \ ScriptBinlogs
  /\ config = ScriptConfig
  /\ posFile = NoFile
  /\ received = << >>
  /\ kv = NoStore
  /\ up = TRUE
  /\ reader = NewReader(binlog, NoFile).reader
  /\ session = NewReader(binlog, NoFile).session
  /\ pc = "top"
  /\ cur = NoCur
  /\ tables = NoTables
  /\ columnNames = NoCache
  /\ columnTypes = NoCache
  /\ ctxDone = FALSE
  /\ mainPc = "wait"
  /\ h = NewRun(InitHistory, NewReader(binlog, NoFile).reader.position,
                NewReader(binlog, NoFile).session.cursor)
  /\ cv = NoCv
  /\ call = NoCall

NextScripted ==
  \/ CallReadEvent
  \/ ReadEvent
  \/ WritePosition
  \/ ReadTimeout
  \/ ReadError
  \/ WakeUp
  \/ HandleTableMap
  \/ HandleOther
  \/ HandleRows
  \/ TransformRows
  \/ BindingCall
  \/ TransformReturns
  \/ PublishRows

SpecScripted == InitScripted /\ [][NextScripted]_vars

\* the table map event that announces the table of the row event at index
\* i of the binlog: the last one before it with its table_id
Announcing(i) ==
  binlog[CHOOSE k \in 1..(i - 1) :
           /\ binlog[k].kind = "tablemap" /\ binlog[k].tid = binlog[i].tid
           /\ \A m \in (k + 1)..(i - 1) :
                ~(binlog[m].kind = "tablemap" /\ binlog[m].tid = binlog[i].tid)]

\* the column list of a table at its announcement: the names the table
\* map carries, else the names the catalog had
AnnouncedColumns(tm) ==
  IF tm.names # << >> THEN tm.names ELSE CatalogAt(tm.ver)[tm.table].names

\* C15: the cached table map of a table_id is the last one read for it,
\* and every row event is decoded with the column list of the table as it
\* was last announced: the rows the sink receives have the columns the
\* table had then.
C15_RefreshedColumns ==
  /\ \A tid \in DOMAIN tables :
       \E k \in 1..Len(binlog) :
         /\ binlog[k] = tables[tid]
         /\ \A m \in (k + 1)..(session.cursor - 1) :
              ~(binlog[m].kind = "tablemap" /\ binlog[m].tid = tid
                  /\ (pc \notin {"saving", "have"} \/ m < cur.idx))
  /\ \A i \in 1..Len(received) :
       \A j \in 1..Len(received[i].data.rows) :
         DOMAIN received[i].data.rows[j] =
           {AnnouncedColumns(Announcing(received[i].idx))[c] :
              c \in 1..Len(AnnouncedColumns(Announcing(received[i].idx)))}

(***************************************************************************)
(* Properties of the reader.                                               *)
(***************************************************************************)
\* the file that the last rotate event of the session named: the last
\* rotate event of the binlog that was delivered, else the rotate event
\* the session began with
AnnouncedFile ==
  LET rotates == {k \in h.startCursor..(session.cursor - 1) : binlog[k].kind = "rotate"}
  IN  IF rotates # {}
      THEN binlog[CHOOSE k \in rotates : \A m \in rotates : m <= k].next
      ELSE ServerStart(h.loaded).name

\* ReadEvent has just returned an event: at once, or after the end of its
\* write of the position file
Returned == up /\ pc \in {"reading", "saving"} /\ up' /\ pc' = "have"

\* C16 as stated: when ReadEvent returns a rotate event that names file F
\* at offset O, the current file is F and the position file holds exactly
\* "F:O"; a later save for another event writes F as the file name.
C16_RotateSaved ==
  [][Returned =>
       IF cur'.e.kind = "rotate"
       THEN /\ reader'.currentFile = cur'.e.next
            /\ posFile'.exists
            /\ posFile'.data = cur'.e.next \o << ":" >> \o Dec(cur'.e.npos)
       ELSE cur'.saved =>
              posFile'.data = AnnouncedFile \o << ":" >> \o Dec(cur'.e.logpos)]_vars

\* C16: when ReadEvent returns a rotate event that names file F at offset
\* O, the current file and position in memory are F and (F, O), and the
\* position file holds exactly "F:O" if its write succeeded; a save for
\* another event writes the file name of the last rotate event.
C16_RotateSavedUnlessWriteFails ==
  [][Returned =>
       IF cur'.e.kind = "rotate"
       THEN /\ reader'.currentFile = cur'.e.next
            /\ reader'.position = [name |-> cur'.e.next, pos |-> cur'.e.npos]
            /\ cur'.saved =>
                 /\ posFile'.exists
                 /\ posFile'.data = cur'.e.next \o << ":" >> \o Dec(cur'.e.npos)
       ELSE /\ reader'.currentFile = AnnouncedFile
            /\ cur'.saved =>
                 posFile'.data = AnnouncedFile \o << ":" >> \o Dec(cur'.e.logpos)]_vars

\* after the rotate event of the binlog, the save for a later event has
\* written the new file name
C16_Witness ==
  /\ up /\ pc = "have" /\ cur.e.kind # "rotate" /\ cur.saved
  /\ \E k \in h.startCursor..(cur.idx - 1) :
       /\ binlog[k].kind = "rotate"
       /\ posFile.data = binlog[k].next \o << ":" >> \o Dec(cur.e.logpos)

(***************************************************************************)
(* The position file alone: SavePosition on a reader, then the load of     *)
(* NewReader, over file names, offsets and file contents.                  *)
(***************************************************************************)
\* the strings of at most n characters of S
Strings(S, n) == UNION {[1..k -> S] : k \in 0..n}

\* the characters file contents are made of: the separator, a letter, a
\* digit, another letter and a space
FileChars == {":", "b", "1", "x", " "}

\* the characters file names are made of
NameChars == {":", "b", "1"}

\* offsets that are saved: of one, two, three and ten digits
Offsets == {0, StartPosition, 10, 120, 2147483647}

\* the configured start offsets
StartOffsets == {StartPosition, 120}

\* a file name with an offset that does not fit a uint32
OverflowFile == << "b", ":" >> \o MaxUint32 \o << "9" >>

\* a file that holds a ten-digit offset
LargestFile == << "b", ":" >> \o Dec(2147483647)

\* files with one character of white space, with a line feed, with a zero
\* width space (U+200B, no white space for fmt) and with several blanks
\* between the separator and the digits
BlankFiles ==
  {<< "b", ":", c, "1" >> : c \in Blanks \cup {"\n", "U+200B"}}
    \cup {<< "b", ":", "\r", "\n", "1" >>, << "b", ":", " ", "\t", "1", "x" >>,
          << "b", ":", "\f", "U+00A0", "U+3000", "1", "x" >>}

\* the position files a process may find at startup
PositionFiles ==
  {NoFile} \cup {[exists |-> TRUE, data |-> d] :
                  d \in Strings(FileChars, MaxFileLen)
                          \cup {OverflowFile, LargestFile} \cup BlankFiles}

\* a call starts either with a file to load, or with a name and an offset to
\* save over no file or over an older one
InitPosition ==
  /\ Idle
  /\ \E file \in PositionFiles, name \in Strings(NameChars, MaxNameLen),
        pos \in Offsets, startPos \in StartOffsets :
       /\ \/ name = << >> /\ pos = 0
          \/ file \in {NoFile, [exists |-> TRUE, data |-> << "b", ":", "1", "x" >>]}
       /\ call = [op |-> "position", file |-> file,
                  reader |-> [position |-> [name |-> << >>, pos |-> startPos],
                              currentFile |-> << >>],
                  name |-> name, pos |-> pos, startPos |-> startPos,
                  prior |-> file,
                  step |-> "start", wrote |-> FALSE, err |-> FALSE,
                  loaded |-> NoPos, done |-> FALSE]

\* Reader.SavePosition(name, pos), with every outcome of its os.WriteFile
SaveCall ==
  /\ call.op = "position" /\ call.step = "start"
  /\ \E w \in WriteOutcomes(FormatPosition(call.name, call.pos)) :
       LET s == SavePosition(call.reader, call.file, call.name, call.pos, w)
       IN  call' = [call EXCEPT !.file = s.file, !.reader = s.reader,
                                !.wrote = s.wrote, !.err = s.err, !.step = "saved"]
  /\ IdleUnchanged

\* the process ends while os.WriteFile of SavePosition is at work: the
\* file was opened with O_TRUNC, and none or only the first bytes of the
\* new content have been written
TornSave ==
  /\ call.op = "position" /\ call.step = "start"
  /\ call.name # << >>
  /\ \E k \in 0..(Len(FormatPosition(call.name, call.pos)) - 1) :
       call' = [call EXCEPT
                  !.file = [exists |-> TRUE,
                            data |-> SubSeq(FormatPosition(call.name, call.pos), 1, k)],
                  !.step = "torn"]
  /\ IdleUnchanged

\* NewReader of the next process: the load of the position file
LoadCall ==
  /\ call.op = "position" /\ call.step \in {"start", "saved", "torn"}
  /\ call' = [call EXCEPT !.loaded = LoadPosition(call.file, call.startPos),
                           !.step = CASE call.step = "saved" -> "reloaded"
                                      [] call.step = "torn" -> "recovered"
                                      [] OTHER -> "loaded",
                           !.done = TRUE]
  /\ IdleUnchanged

NextPosition ==
  \/ SaveCall
  \/ TornSave
  \/ LoadCall

SpecPosition == InitPosition /\ [][NextPosition]_vars

(***************************************************************************)
(* Properties of the position file.                                        *)
(***************************************************************************)
\* C17: loading a position file that SavePosition(name, offset) wrote, for
\* a non-empty name (with or without ':' in it) and an offset, gives
\* exactly (name, offset).
C17_SaveLoadRoundTrip ==
  (call.op = "position" /\ call.step = "reloaded" /\ call.wrote /\ call.name # << >>)
    => call.loaded = [name |-> call.name, pos |-> call.pos]

\* a name with a ':' and the largest offset were saved and loaded
C17_Witness ==
  /\ call.op = "position" /\ call.step = "reloaded" /\ call.wrote
  /\ call.name = << "b", ":" >> /\ call.pos = 2147483647
  /\ call.file.data = << "b", ":", ":" >> \o Dec(2147483647)
  /\ call.loaded = [name |-> << "b", ":" >>, pos |-> 2147483647]

\* C18: with the position file missing or empty at startup, the position
\* the session is started with is the empty file name with the configured
\* start offset.
C18_NothingToLoad ==
  (/\ call.op = "position" /\ call.step = "loaded"
   /\ (~call.file.exists \/ call.file.data = << >>))
    => call.loaded = [name |-> << >>, pos |-> call.startPos]

\* an empty file was loaded with a start offset other than the default
C18_Witness ==
  /\ call.op = "position" /\ call.step = "loaded"
  /\ call.file.exists /\ call.file.data = << >>
  /\ call.startPos = 120
  /\ call.loaded = [name |-> << >>, pos |-> 120]

\* whether the content is a non-empty name, a ':' and a decimal number
WellFormed(data) ==
  \E k \in 2..(Len(data) - 1) :
    /\ data[k] = ":"
    /\ \A i \in (k + 1)..Len(data) : IsDigit(data[i])
    /\ ~Overflows(SubSeq(data, k + 1, Len(data)))

\* whether the text begins with blanks (white space other than a line feed;
\* b of them) and then a digit, the digits from there on denoting a number that
\* fits a uint32
NumberAfter(rest, b) ==
  /\ b < Len(rest)
  /\ \A i \in 1..b : rest[i] \in Blanks
  /\ IsDigit(rest[b + 1])
  /\ ~Overflows(SubSeq(rest, b + 1, b + DigitPrefixLen(SubSeq(rest, b + 1, Len(rest)))))

\* whether the load takes the content apart: a ':' after the first byte and
\* before the last, and after the last ':' blanks or none and then digits
\* that denote a uint32
Parsed(data) ==
  \E k \in 2..(Len(data) - 1) :
    /\ data[k] = ":"
    /\ \A i \in (k + 1)..Len(data) : data[i] # ":"
    /\ \E b \in 0..Len(data) : NumberAfter(SubSeq(data, k + 1, Len(data)), b)

\* C19 as stated: a non-empty position file that is not of the form
\* name:decimal-offset is loaded as (entire content, configured start
\* offset).
C19_FallbackUnlessWellFormed ==
  (/\ call.op = "position" /\ call.step = "loaded"
   /\ call.file.exists /\ call.file.data # << >>
   /\ ~WellFormed(call.file.data))
    => call.loaded = [name |-> call.file.data, pos |-> call.startPos]

\* C19, amended: a non-empty position file is loaded as (entire content,
\* configured start offset) unless it has a ':' after its first byte and
\* before its last and the text after the last ':' begins, after white
\* space other than a line feed if any, with digits that denote a uint32; then
\* the blanks and whatever follows the digits are ignored and the position
\* is (text before the last ':', that number).
C19_FallbackUnlessParsed ==
  (/\ call.op = "position" /\ call.step = "loaded"
   /\ call.file.exists /\ call.file.data # << >>)
    => IF Parsed(call.file.data)
       THEN \E k \in 2..(Len(call.file.data) - 1), b \in 0..Len(call.file.data) :
              LET rest == SubSeq(call.file.data, k + 1, Len(call.file.data))
                  number == SubSeq(rest, b + 1, Len(rest))
              IN  /\ call.file.data[k] = ":"
                  /\ \A i \in 1..Len(rest) : rest[i] # ":"
                  /\ NumberAfter(rest, b)
                  /\ call.loaded.name = SubSeq(call.file.data, 1, k - 1)
                  /\ call.loaded.pos = DigitsValue(SubSeq(number, 1, DigitPrefixLen(number)))
       ELSE call.loaded = [name |-> call.file.data, pos |-> call.startPos]

\* files in the old format and files with an offset that cannot be read
\* were loaded whole, with the start offset
C19_Witness ==
  /\ call.op = "position" /\ call.step = "loaded" /\ call.startPos = 120
  /\ call.file.data \in {<< "b" >>, << "b", ":", "x" >>, << ":", "1" >>,
                         << "b", ":" >>, << "b", ":", " " >>,
                         << "b", ":", "\n", "1" >>,
                         << "b", ":", "U+200B", "1" >>, OverflowFile}
  /\ call.loaded = [name |-> call.file.data, pos |-> 120]

(***************************************************************************)
(* Properties of the loop.                                                 *)
(***************************************************************************)
\* the iteration for the row event in hand ends with an error
Failing ==
  /\ up /\ pc \in {"have", "decoded", "scripting", "transformed"}
  /\ cur.e.kind = "rows" /\ up'
  /\ h'.last # h.last
  /\ h'.last \in {"decode_error", "transform_error", "publish_error"}

\* C20: a decode error, a transform error or a failed publish does not end
\* the loop: the error is logged, the pipeline does not publish the event
\* and does not read it again (the source stays behind it), and the loop
\* is back at its top; Start has returned only if the context was
\* cancelled.
C20_ErrorsDoNotEndLoop ==
  /\ [](up /\ pc = "returned" => ctxDone)
  /\ [][Failing =>
          /\ Level(h'.last) = "error"
          /\ Published' = Published
          /\ pc' = "top"
          /\ session' = session /\ session.cursor = cur.idx + 1
          /\ UNCHANGED << ctxDone, mainPc >>]_vars

\* a publish has just failed, or a decode, and the loop has the next event
\* of the binlog to read
C20_Witness ==
  /\ up /\ pc = "top" /\ ~ctxDone
  /\ h.last \in {"publish_error", "decode_error"}
  /\ cur.e.kind = "rows" /\ session.cursor = cur.idx + 1
  /\ session.cursor <= Len(binlog)

\* C21: once the context is cancelled the loop starts no new iteration
\* (it calls ReadEvent no more), and the iteration in progress completes
\* and Start returns before the process ends.
C21_CancelledLoopReturns ==
  /\ [][(up /\ ctxDone /\ up') => ~(pc = "top" /\ pc' = "reading")]_vars
  /\ [][(up /\ ctxDone /\ ~up') => pc = "returned"]_vars

(***************************************************************************)
(* The pre-flight check of the server (CheckConnectionAndPermissions).  A  *)
(* grant is a string, a sequence of characters: strings.ToUpper works on   *)
(* every letter of it and strings.Contains finds a privilege wherever its  *)
(* characters stand next to each other, inside a longer word as well.      *)
(***************************************************************************)
\* the privileges the check requires, in the order it looks for them
REPLICATION_SLAVE == << "R", "E", "P", "L", "I", "C", "A", "T", "I", "O", "N", " ", "S", "L",
     "A", "V", "E" >>

REPLICATION_CLIENT == << "R", "E", "P", "L", "I", "C", "A", "T", "I", "O", "N", " ", "C", "L",
     "I", "E", "N", "T" >>

SELECT == << "S", "E", "L", "E", "C", "T" >>

ALL_PRIVILEGES == << "A", "L", "L", " ", "P", "R", "I", "V", "I", "L", "E", "G", "E", "S" >>

RequiredPrivs == << REPLICATION_SLAVE, REPLICATION_CLIENT, SELECT >>

\* strings.ToUpper(grantsStr)
UpperGrant(grantsStr) == ToUpper(grantsStr)

\* the rows of SHOW GRANTS joined with "; "
RECURSIVE JoinGrants(_)
JoinGrants(rows) ==
  IF rows = << >> THEN << >>
  ELSE IF Len(rows) = 1 THEN rows[1]
  ELSE rows[1] \o << ";", " " >> \o JoinGrants(Tail(rows))

\* the required privileges that strings.Contains does not find in the grants
RECURSIVE MissingFrom(_, _)
MissingFrom(grantsUpper, privs) ==
  IF privs = << >> THEN << >>
  ELSE (IF Contains(grantsUpper, Head(privs)) THEN << >> ELSE << Head(privs) >>)
       \o MissingFrom(grantsUpper, Tail(privs))

\* CheckConnectionAndPermissions on a server described by srv: whether
\* the connection opens and answers, how the grants query ends and with
\* which rows, what the two queries for log_bin and the queries for
\* binlog_format give ("fail" for a query that fails).  The result is the
\* error returned (None for nil) and the lines logged on the way.
CheckConnectionAndPermissions(srv) ==
  LET grantsUpper == UpperGrant(JoinGrants(srv.grants))
      missingPrivs == MissingFrom(grantsUpper, RequiredPrivs)
      formatLog == IF srv.format \notin {"fail", "", "ROW"} THEN {"warn_format"}
                   ELSE IF srv.format = "ROW" THEN {"info_format"} ELSE {}
      done(err, logs) == [err |-> err, missing |-> << >>, logs |-> logs]
  IN  IF srv.conn = "open_fail" THEN done("open", {})
      ELSE IF srv.conn = "ping_fail" THEN done("connect", {})
      ELSE IF srv.query = "fail" THEN done("check_grants", {"info_connected"})
      ELSE IF srv.query = "scan_fail" /\ srv.grants # << >>
      THEN done("scan_grant", {"info_connected"})
      ELSE IF srv.query = "iter_fail" THEN done("iterate_grants", {"info_connected"})
      ELSE IF missingPrivs # << >>
      THEN [err |-> "missing_permissions", missing |-> missingPrivs,
            logs |-> {"info_connected"}]
      ELSE LET base == {"info_connected", "info_permissions"}
           IN  IF srv.showLogBin # "fail"
               THEN IF srv.showLogBin \notin {"ON", "1"}
                    THEN done("binlog_disabled", base)
                    ELSE done(None, base \cup {"info_binlog"} \cup formatLog)
               ELSE IF srv.selectLogBin = "fail"
               THEN done(None, base \cup {"warn_binlog_unverified"} \cup formatLog)
               ELSE IF srv.selectLogBin \in {"0", "OFF"}
               THEN done("binlog_disabled", base)
               ELSE done(None, base \cup {"info_binlog"} \cup formatLog)

\* rows that SHOW GRANTS may give: privileges in upper, lower and mixed
\* case, a user name that holds the letters of a privilege, and a privilege
\* of MySQL 8 whose name has REPLICATION and SLAVE joined by an underscore
GrantPool ==
  { \* GRANT SELECT, REPLICATION SLAVE, REPLICATION CLIENT ON *.*
    << "G", "R", "A", "N", "T", " ", "S", "E", "L", "E", "C", "T", ",", " ",
       "R", "E", "P", "L", "I", "C", "A", "T", "I", "O", "N", " ", "S", "L",
       "A", "V", "E", ",", " ", "R", "E", "P", "L", "I", "C", "A", "T", "I",
       "O", "N", " ", "C", "L", "I", "E", "N", "T", " ", "O", "N", " ", "*",
       ".", "*" >>,
    \* GRANT ALL PRIVILEGES ON *.*
    << "G", "R", "A", "N", "T", " ", "A", "L", "L", " ", "P", "R", "I", "V",
       "I", "L", "E", "G", "E", "S", " ", "O", "N", " ", "*", ".", "*" >>,
    \* GRANT USAGE ON *.* TO 'selector'@'%'
    << "G", "R", "A", "N", "T", " ", "U", "S", "A", "G", "E", " ", "O", "N",
       " ", "*", ".", "*", " ", "T", "O", " ", "'", "s", "e", "l", "e", "c",
       "t", "o", "r", "'", "@", "'", "%", "'" >>,
    \* grant select on shop.*
    << "g", "r", "a", "n", "t", " ", "s", "e", "l", "e", "c", "t", " ", "o",
       "n", " ", "s", "h", "o", "p", ".", "*" >>,
    \* GRANT REPLICATION SLAVE ON *.*
    << "G", "R", "A", "N", "T", " ", "R", "E", "P", "L", "I", "C", "A", "T",
       "I", "O", "N", " ", "S", "L", "A", "V", "E", " ", "O", "N", " ", "*",
       ".", "*" >>,
    \* GRANT replication client ON *.*
    << "G", "R", "A", "N", "T", " ", "r", "e", "p", "l", "i", "c", "a", "t",
       "i", "o", "n", " ", "c", "l", "i", "e", "n", "t", " ", "O", "N", " ",
       "*", ".", "*" >>,
    \* GRANT Select, Replication Slave, Replication Client ON *.*
    << "G", "R", "A", "N", "T", " ", "S", "e", "l", "e", "c", "t", ",", " ",
       "R", "e", "p", "l", "i", "c", "a", "t", "i", "o", "n", " ", "S", "l",
       "a", "v", "e", ",", " ", "R", "e", "p", "l", "i", "c", "a", "t", "i",
       "o", "n", " ", "C", "l", "i", "e", "n", "t", " ", "O", "N", " ", "*",
       ".", "*" >>,
    \* GRANT REPLICATION_SLAVE_ADMIN ON *.*
    << "G", "R", "A", "N", "T", " ", "R", "E", "P", "L", "I", "C", "A", "T",
       "I", "O", "N", "_", "S", "L", "A", "V", "E", "_", "A", "D", "M", "I",
       "N", " ", "O", "N", " ", "*", ".", "*" >> }

\* the servers the check is tried on
Servers ==
  [conn : {"ok", "open_fail", "ping_fail"},
   query : {"ok", "fail", "scan_fail", "iter_fail"},
   grants : UNION {[1..n -> GrantPool] : n \in 0..MaxGrants},
   showLogBin : {"fail", "ON", "OFF"},
   selectLogBin : {"fail", "1", "0"},
   format : {"fail", "ROW", "MIXED"}]

NoCheck == [err |-> "pending", missing |-> << >>, logs |-> {}]

InitPreflight ==
  /\ Idle
  /\ \E srv \in Servers :
       call = [op |-> "preflight", srv |-> srv, out |-> NoCheck, done |-> FALSE]

\* main: the pre-flight check, before anything else is built
Preflight ==
  /\ call.op = "preflight" /\ ~call.done
  /\ call' = [call EXCEPT !.out = CheckConnectionAndPermissions(call.srv),
                           !.done = TRUE]
  /\ IdleUnchanged

NextPreflight == Preflight

SpecPreflight == InitPreflight /\ [][NextPreflight]_vars

(***************************************************************************)
(* Properties of the pre-flight check.                                     *)
(***************************************************************************)
\* the text of all the grants, in upper case
GrantsUpper == UpperGrant(JoinGrants(call.srv.grants))

\* the check got as far as looking at the grants
GrantsSeen ==
  /\ call.op = "preflight" /\ call.done
  /\ call.srv.conn = "ok"
  /\ call.srv.query = "ok"

\* C22: the grant check passes exactly when the grants, in any case, name
\* REPLICATION SLAVE, REPLICATION CLIENT and SELECT, or name ALL PRIVILEGES;
\* otherwise the check fails with the missing-permissions error.
C22_GrantsSuffice ==
  GrantsSeen =>
    (call.out.err # "missing_permissions"
       <=> \/ \A i \in 1..Len(RequiredPrivs) : Contains(GrantsUpper, RequiredPrivs[i])
           \/ Contains(GrantsUpper, ALL_PRIVILEGES))

\* C23: the check returns no error only if log_bin was read and found
\* enabled; a binlog_format other than ROW gives a warning only.
C23_BinlogVerified ==
  (call.op = "preflight" /\ call.done /\ call.out.err = None)
    => /\ \/ call.srv.showLogBin \in {"ON", "1"}
          \/ call.srv.showLogBin = "fail" /\ call.srv.selectLogBin = "1"
       /\ "info_binlog" \in call.out.logs
       /\ call.srv.format = "MIXED" => "warn_format" \in call.out.logs

(***************************************************************************)
(* Properties of the publisher.                                            *)
(***************************************************************************)
\* C24: what the sink receives is the RawJSON of the event when the event
\* has one and the serialization of the change event otherwise; with a
\* script it is the object the script returned, whatever its fields.
C24_PayloadVerbatim ==
  (call.op = "rules" /\ call.published) =>
    /\ Len(Published) = 1 /\ Published[1].subject = Subject
    /\ Published[1].data =
         IF call.out.event.RawJSON.present THEN call.out.event.RawJSON.obj
         ELSE Marshal(call.out.event)
    /\ (call.cfg.Enabled /\ call.cfg.Script) => Published[1].data = call.result.obj
    /\ ~(call.cfg.Enabled /\ call.cfg.Script) => ~call.out.event.RawJSON.present

\* the script added a field to the event, and the sink received it
C24_Witness ==
  /\ call.op = "rules" /\ call.published
  /\ call.cfg.Enabled /\ call.cfg.Script
  /\ "source" \in DOMAIN Published[1].data
  /\ Published[1].data # Marshal(call.out.event)

(***************************************************************************)
(* Properties of the loop when the source fails.                           *)
(***************************************************************************)
\* C25: after the iteration in which the read failed (the error logged,
\* the backoff waited) the loop has an open replication session again, so
\* that the events of the binlog can be read and delivered.
C25_SessionReopened ==
  (up /\ pc = "top" /\ h.last = "read_error" /\ Level(h.last) = "error")
    => ~session.closed

(***************************************************************************)
(* Two runs of the reader that differ in use_gtid only, side by side: the  *)
(* same binlog, the same position file at startup, the same outcomes of    *)
(* the writes of the position file.                                        *)
(***************************************************************************)
\* a variant that starts from the server's current position when GTID is
\* asked for, whatever the position file holds
NewReaderFor_GtidFromStart(log, file, useGTID) ==
  LET nr == NewReader(log, IF useGTID THEN NoFile ELSE file)
  IN  [reader |-> nr.reader, session |-> nr.session, file |-> file,
       returned |-> << >>,
       logs |-> IF useGTID THEN << "info_gtid" >> ELSE << >>]

\* NewReader with its useGTID argument: a run of the reader is the reader,
\* its session, the position file, the events ReadEvent returned and the
\* lines logged about GTID
NewReaderFor(log, file, useGTID) ==
  LET nr == NewReader(log, file)
  IN  [reader |-> nr.reader, session |-> nr.session, file |-> file,
       returned |-> << >>,
       logs |-> IF useGTID THEN << "info_gtid" >> ELSE << >>]

\* whether the session of the run has an event to deliver
RunHasEvent(run, log) ==
  /\ ~run.session.closed
  /\ run.session.pending # << >> \/ run.session.cursor <= Len(log)

\* ReadEvent in a run, with the outcome w of its write of the position file
ReadIn(run, log, w) ==
  LET artificial == run.session.pending # << >>
      e == IF artificial THEN Head(run.session.pending) ELSE log[run.session.cursor]
      sv == AfterEvent(run.reader, run.file, e, w)
  IN  [run EXCEPT !.reader = sv.reader, !.file = sv.file,
                  !.session = IF artificial
                              THEN [run.session EXCEPT !.pending = Tail(@)]
                              ELSE [run.session EXCEPT !.cursor = @ + 1],
                  !.returned = Append(@, e)]

\* the position files the two runs may find
StoredFiles ==
  {NoFile,
   [exists |-> TRUE, data |-> FormatPosition(BinlogName(1), StartPosition + EventSize)],
   [exists |-> TRUE, data |-> FormatPosition(BinlogName(1), StartPosition + 2 * EventSize)],
   [exists |-> TRUE, data |-> BinlogName(1)]}

NoRun == [reader |-> NoReader, session |-> NoSession, file |-> NoFile,
          returned |-> << >>, logs |-> << >>]

InitGtid ==
  /\ Idle
  /\ \E log \in Binlogs, file \in StoredFiles :
       call = [op |-> "gtid", log |-> log, file |-> file,
               plain |-> NoRun, gtid |-> NoRun, done |-> FALSE]

\* main: NewReader, in the run without and in the run with use_gtid
OpenBoth ==
  /\ call.op = "gtid" /\ ~call.done
  /\ call' = [call EXCEPT !.plain = NewReaderFor(call.log, call.file, FALSE),
                           !.gtid = NewReaderFor(call.log, call.file, TRUE),
                           !.done = TRUE]
  /\ IdleUnchanged

\* Start: ReadEvent in both runs, each on its own session
ReadBoth ==
  /\ call.op = "gtid" /\ call.done
  /\ RunHasEvent(call.plain, call.log) /\ RunHasEvent(call.gtid, call.log)
  /\ \E w \in WriteOutcomes(BinlogName(1)) :
       call' = [call EXCEPT !.plain = ReadIn(call.plain, call.log, w),
                            !.gtid = ReadIn(call.gtid, call.log, w)]
  /\ IdleUnchanged

NextGtid ==
  \/ OpenBoth
  \/ ReadBoth

SpecGtid == InitGtid /\ [][NextGtid]_vars

\* C26: the two runs load the same position, open the session at the same
\* place, return the same events and write the same position file; and
\* they can always read together.
C26_GtidIgnored ==
  (call.op = "gtid" /\ call.done) =>
    /\ call.plain.reader = call.gtid.reader
    /\ call.plain.session = call.gtid.session
    /\ call.plain.returned = call.gtid.returned
    /\ call.plain.file = call.gtid.file
    /\ RunHasEvent(call.plain, call.log) <=> RunHasEvent(call.gtid, call.log)

\* both runs started from a stored position inside a file, read events
\* of the binlog and wrote the position file; only the run with use_gtid
\* logged that GTID was asked for
C26_Witness ==
  /\ call.op = "gtid" /\ call.done
  /\ call.file.exists /\ call.file.data # BinlogName(1)
  /\ call.gtid.logs = << "info_gtid" >> /\ call.plain.logs = << >>
  /\ Len(call.gtid.returned) > 2
  /\ call.gtid.file # call.file
  /\ call.gtid.file = call.plain.file

(***************************************************************************)
(* The decoder alone: ProcessRowEvent on row events of the table orders    *)
(* with any number of tuples.                                              *)
(***************************************************************************)
\* the tuples: images of the rows 1 and 2 with the status new or done
TuplePool ==
  { << IntVal(r), Bytes(status, IF status = "new" THEN 3 ELSE 4), Nil >> :
      r \in {1, 2}, status \in {"new", "done"} }

InitPairs ==
  /\ Idle
  /\ \E n \in 0..MaxTuples, eventType \in {"INSERT", "UPDATE", "DELETE"} :
       \E tuples \in [1..n -> TuplePool] :
         call = [op |-> "decode", eventType |-> eventType, tuples |-> tuples,
                 out |-> NoOut, done |-> FALSE]

\* Start: ProcessRowEvent for a row event of orders, after its table map
DecodeEvent ==
  /\ call.op = "decode" /\ ~call.done
  /\ \E now \in Clock :
       LET tm == TableMapEvent(<< >>, 0, 1, "orders", << >>)
           e == RowsEvent(<< >>, 0, 1, "orders", call.eventType, call.tuples)
           dec == ProcessRowEvent(e, call.eventType, [tid \in {1} |-> tm],
                                  NoCache, NoCache, Catalog, TRUE, now)
       IN  call' = [call EXCEPT !.out = [err |-> dec.err, event |-> dec.event],
                                !.done = TRUE]
  /\ IdleUnchanged

NextPairs == DecodeEvent

SpecPairs == InitPairs /\ [][NextPairs]_vars

\* the row that a tuple of orders stands for
Image(t) == [id |-> t[1], code |-> String(t[2]), blob_col |-> t[3]]

\* C27: for an UPDATE the tuples are taken in pairs: old_rows[i] is made
\* from the first and rows[i] from the second tuple of the i-th pair, and
\* a last tuple without a partner is in neither list.
C27_UpdatePairwise ==
  (call.op = "decode" /\ call.done /\ call.eventType = "UPDATE") =>
    /\ call.out.err = None
    /\ Len(call.out.event.Rows) = Len(call.tuples) \div 2
    /\ Len(call.out.event.OldRows) = Len(call.tuples) \div 2
    /\ \A i \in 1..(Len(call.tuples) \div 2) :
         /\ call.out.event.OldRows[i] = Image(call.tuples[2 * i - 1])
         /\ call.out.event.Rows[i] = Image(call.tuples[2 * i])

\* two rows went from new to done, and a fifth tuple came without a
\* partner
C27_Witness ==
  /\ call.op = "decode" /\ call.done /\ call.eventType = "UPDATE"
  /\ Len(call.tuples) = 5
  /\ Len(call.out.event.Rows) = 2 /\ Len(call.out.event.OldRows) = 2
  /\ \A i \in 1..2 :
       /\ call.out.event.OldRows[i].id = IntVal(i)
       /\ call.out.event.Rows[i].id = IntVal(i)
       /\ call.out.event.OldRows[i].code.id = "new"
       /\ call.out.event.Rows[i].code.id = "done"

(***************************************************************************)
(* Properties of ReadEvent for the events that are no rotate events.       *)
(***************************************************************************)
\* the event the session delivers next
NextEvent ==
  IF session.pending # << >> THEN Head(session.pending) ELSE binlog[session.cursor]

\* the event GetEvent delivers or has delivered to the ReadEvent under way
Delivered == IF pc = "saving" THEN cur.e ELSE NextEvent

\* ReadEvent has just returned an event that is no rotate event
ReturnedOther == Returned /\ cur'.e.kind # "rotate"

\* whether head is the sequence seq or a beginning of it
IsPrefix(head, seq) ==
  Len(head) <= Len(seq) /\ SubSeq(seq, 1, Len(head)) = head

\* C28 as stated: for an event that is no rotate event, ReadEvent sets
\* the position in memory and in the position file to (current file,
\* log_pos) when log_pos > 0 and leaves both as they are when log_pos = 0;
\* the event is returned.
C28_OtherEventSaved ==
  [][ReturnedOther =>
       /\ cur'.e = Delivered
       /\ IF cur'.e.logpos > 0
          THEN /\ reader'.position = [name |-> AnnouncedFile, pos |-> cur'.e.logpos]
               /\ posFile' = [exists |-> TRUE,
                              data |-> AnnouncedFile \o << ":" >> \o Dec(cur'.e.logpos)]
          ELSE reader' = reader /\ posFile' = posFile]_vars

\* C28, amended: only when log_pos > 0 does ReadEvent open the position
\* file for writing; when the write succeeds, the position in memory and
\* the file hold (current file, log_pos); when it fails, the position in
\* memory is as before and the file is as before (the open failed) or
\* holds none, some or all of the bytes of the new text; when log_pos = 0
\* the position in memory and the file are as before; the event is
\* returned in every case.
C28_OtherEventSavedIfWritten ==
  /\ [][(up /\ up' /\ pc = "reading" /\ pc' = "saving" /\ cur'.e.kind # "rotate") =>
          /\ cur'.e = Delivered /\ cur'.e.logpos > 0
          /\ reader' = reader
          /\ posFile' = [exists |-> TRUE, data |-> << >>]]_vars
  /\ [][ReturnedOther =>
          /\ cur'.e = Delivered
          /\ reader'.currentFile = AnnouncedFile
          /\ IF cur'.e.logpos > 0 /\ cur'.saved
             THEN /\ reader'.position = [name |-> AnnouncedFile, pos |-> cur'.e.logpos]
                  /\ posFile' = [exists |-> TRUE,
                                 data |-> AnnouncedFile \o << ":" >> \o Dec(cur'.e.logpos)]
             ELSE /\ reader' = reader
                  /\ IF pc = "saving"
                     THEN /\ posFile'.exists
                          /\ IsPrefix(posFile'.data,
                                      AnnouncedFile \o << ":" >> \o Dec(cur'.e.logpos))
                     ELSE posFile' = posFile]_vars

\* a session that began inside a file has returned its format
\* description event, whose log_pos is 0, and the position file still
\* holds the position of the rotate event before it
C28_Witness ==
  /\ up /\ pc = "have" /\ cur.e.kind = "format" /\ cur.e.logpos = 0
  /\ posFile.exists
  /\ posFile.data = reader.currentFile \o << ":" >> \o Dec(reader.position.pos)
  /\ reader.position.pos > StartPosition

\* C29: whether or not the position file could be written, ReadEvent
\* returns the event and the loop goes on to handle it; and every save
\* that succeeds writes the file of the latest rotate event with the
\* offset of the event just read, also after a save that failed for a
\* rotate event.
C29_FailedSaveSuppressed ==
  [][Returned =>
       /\ cur'.e = Delivered
       /\ h'.last = "event"
       /\ cur'.saved =>
            posFile' = [exists |-> TRUE,
                        data |-> IF cur'.e.kind = "rotate"
                                 THEN cur'.e.next \o << ":" >> \o Dec(cur'.e.npos)
                                 ELSE AnnouncedFile \o << ":" >> \o Dec(cur'.e.logpos)]]_vars

\* the write for the rotate event of the binlog has failed and left the
\* position file empty, after earlier writes of the run had succeeded;
\* ReadEvent has returned the rotate event, with the new file name in
\* memory
C29_Witness ==
  /\ up /\ pc = "have" /\ cur.e.kind = "rotate" /\ cur.idx > 0 /\ ~cur.saved
  /\ h.last = "event" /\ h.written # NoPos
  /\ posFile = [exists |-> TRUE, data |-> << >>]
  /\ reader.currentFile = cur.e.next

(***************************************************************************)
(* Properties of the position file when a write is cut short.              *)
(***************************************************************************)
\* C30: when the process ends while SavePosition writes, the position
\* loaded at the restart is the one persisted before or the one that was
\* being written.
C30_TornWriteTolerated ==
  (call.op = "position" /\ call.step = "recovered") =>
    call.loaded \in {LoadPosition(call.prior, call.startPos),
                     [name |-> call.name, pos |-> call.pos]}

(***************************************************************************)
(* Properties of the loop for a row event without a table map.             *)
(***************************************************************************)
\* the iteration for the row event in hand ends, and the row event has no
\* table map in the cache
HandlesUnmapped ==
  /\ up /\ pc = "have" /\ cur.e.kind = "rows" /\ up'
  /\ pc' # "have"
  /\ cur.e.tid \notin DOMAIN tables

\* C32: a row event whose table_id is not in the cache of table maps fails
\* to decode with "table map not found": the error is logged, nothing is
\* published, the cache of table maps and the caches of column names and
\* types are as before, and the loop is back at its top with the source
\* behind the event.
C32_MissingTableMap ==
  [][HandlesUnmapped =>
       /\ \A dbOk \in BOOLEAN, ver \in 1..2, now \in Clock :
            ProcessRowEvent(cur.e, cur.e.etype, tables, columnNames, columnTypes,
                            CatalogAt(ver), dbOk, now).err = "table map not found"
       /\ h'.last = "decode_error" /\ Level(h'.last) = "error"
       /\ received' = received
       /\ UNCHANGED << tables, columnNames, columnTypes >>
       /\ pc' = "top"
       /\ session' = session /\ session.cursor = cur.idx + 1
       /\ UNCHANGED << ctxDone, mainPc >>]_vars

\* a run that started behind a table map has dropped the row event that
\* came without it, with empty caches, and has the next event to read
C32_Witness ==
  /\ up /\ pc = "top" /\ ~ctxDone /\ ~session.closed
  /\ h.last = "decode_error"
  /\ cur.e.kind = "rows" /\ cur.e.tid \notin DOMAIN tables
  /\ columnNames = NoCache /\ columnTypes = NoCache
  /\ received = << >>
  /\ session.cursor = cur.idx + 1 /\ session.cursor <= Len(binlog)

(***************************************************************************)
(* The decoder on lists of column names that are shorter than the tuples:  *)
(* ProcessRowEvent on row events of the table orders, whose tuples have    *)
(* three values, with the first columns of the table only, from the table  *)
(* map or from the catalog.                                                *)
(***************************************************************************)
\* the first n elements of a sequence
Prefix(seq, n) == SubSeq(seq, 1, n)

InitShort ==
  /\ Idle
  /\ \E n \in 0..MaxShortTuples, eventType \in {"INSERT", "UPDATE", "DELETE"},
        embedded \in BOOLEAN, k \in 0..Len(Catalog.orders.names) :
       \E tuples \in [1..n -> TuplePool] :
         call = [op |-> "short", eventType |-> eventType, tuples |-> tuples,
                 embedded |-> embedded,
                 names |-> Prefix(Catalog.orders.names, k),
                 out |-> NoOut, done |-> FALSE]

\* Start: ProcessRowEvent for a row event of orders, after a table map
\* that carries the names, or with a catalog that gives the names
DecodeShort ==
  /\ call.op = "short" /\ ~call.done
  /\ \E now \in Clock :
       LET tm == TableMapEvent(<< >>, 0, 1, "orders",
                               IF call.embedded THEN call.names ELSE << >>)
           catalog == IF call.embedded THEN Catalog
                      ELSE [orders |-> [names |-> call.names,
                                        types |-> Prefix(Catalog.orders.types,
                                                         Len(call.names))]]
           e == RowsEvent(<< >>, 0, 1, "orders", call.eventType, call.tuples)
           dec == ProcessRowEvent(e, call.eventType, [tid \in {1} |-> tm],
                                  NoCache, NoCache, catalog, TRUE, now)
       IN  call' = [call EXCEPT !.out = [err |-> dec.err, event |-> dec.event],
                                !.done = TRUE]
  /\ IdleUnchanged

NextShort == DecodeShort

SpecShort == InitShort /\ [][NextShort]_vars

\* the names the decoder resolves: those of the table map if it carries
\* any, else those of the catalog
ResolvedNames ==
  IF call.embedded /\ call.names = << >> THEN Catalog.orders.names ELSE call.names

\* the row that a tuple of orders stands for, cut down to the first n
\* columns of the table
ShortImage(t, n) ==
  [name \in {Catalog.orders.names[j] : j \in 1..n} |-> Image(t)[name]]

\* C33: with a list of column names shorter than the tuples the decoder
\* gives no error, and every row it emits holds exactly the first
\* len(names) values of its tuple under their names and none of the other
\* values: every tuple of an INSERT or DELETE, and both tuples of every
\* pair of an UPDATE.
C33_NamedPrefixOnly ==
  (call.op = "short" /\ call.done /\ Len(ResolvedNames) < 3) =>
    /\ call.out.err = None
    /\ IF call.eventType = "UPDATE"
       THEN /\ Len(call.out.event.Rows) = Len(call.tuples) \div 2
            /\ Len(call.out.event.OldRows) = Len(call.tuples) \div 2
            /\ \A i \in 1..(Len(call.tuples) \div 2) :
                 /\ call.out.event.OldRows[i] =
                      ShortImage(call.tuples[2 * i - 1], Len(ResolvedNames))
                 /\ call.out.event.Rows[i] =
                      ShortImage(call.tuples[2 * i], Len(ResolvedNames))
       ELSE /\ Len(call.out.event.Rows) = Len(call.tuples)
            /\ call.out.event.OldRows = << >>
            /\ \A i \in 1..Len(call.tuples) :
                 call.out.event.Rows[i] = ShortImage(call.tuples[i], Len(ResolvedNames))

\* an UPDATE of one pair of tuples was decoded with the names of the
\* first two columns: each image has the id and the code, and no third
\* field
C33_Witness ==
  /\ call.op = "short" /\ call.done /\ call.eventType = "UPDATE"
  /\ call.names = << "id", "code" >>
  /\ Len(call.tuples) >= 2
  /\ DOMAIN call.out.event.Rows[1] = {"id", "code"}
  /\ DOMAIN call.out.event.OldRows[1] = {"id", "code"}
  /\ call.out.event.Rows[1].code = String(call.tuples[2][2])
  /\ call.out.event.OldRows[1].id = call.tuples[1][1]

(***************************************************************************)
(* Properties of the static fields of a rule.                              *)
(***************************************************************************)
\* the fields of the row that the rule lets through and puts out under
\* the key
PutOutUnder(rule, row, key) ==
  {field \in DOMAIN row : ~Dropped(rule, field) /\ OutName(rule, field) = key}

\* C34: under the matching rule every key of add_fields is in every
\* output row: with the value of a field of the input row that is put out
\* under that key if there is one, and with the static value otherwise.
C34_InputOverridesStatic ==
  RulesApplied =>
    \A p \in InOut : \A key \in DOMAIN AppliedRule.AddFields :
      /\ key \in DOMAIN p[2]
      /\ IF PutOutUnder(AppliedRule, p[1], key) # {}
         THEN \E field \in PutOutUnder(AppliedRule, p[1], key) : p[2][key] = p[1][field]
         ELSE p[2][key] = AppliedRule.AddFields[key]

\* a rule with the static field id was applied to a row that has a field
\* id, which it lets through: the output row has the id of the row
C34_Witness ==
  /\ RulesApplied
  /\ "id" \in DOMAIN AppliedRule.AddFields
  /\ \E p \in InOut :
       /\ "id" \in PutOutUnder(AppliedRule, p[1], "id")
       /\ p[2].id = p[1].id
       /\ p[2].id # AppliedRule.AddFields.id

(***************************************************************************)
(* Properties of the loop when the read fails.                             *)
(***************************************************************************)
\* the read of this iteration has just failed, with a timeout or otherwise
ReadFailed(how) ==
  up /\ up' /\ pc = "reading" /\ pc' \in {"top", "sleeping"} /\ h'.last = how

\* C35: an iteration whose read times out publishes nothing, leaves the
\* caches, the position in memory and the position file as they are, does
\* not sleep and is back at the top of the loop; an iteration whose read
\* fails otherwise sleeps the backoff before it is back at the top; and
\* the cancellation is looked at before every read: a read is begun at
\* the top of the loop only, and none once the context is cancelled.
C35_TimeoutIsNoEvent ==
  /\ [][ReadFailed("timeout") =>
          /\ Backoff(h'.last) = 0 /\ Level(h'.last) # "error"
          /\ pc' = "top"
          /\ UNCHANGED << received, tables, columnNames, columnTypes, reader,
                          posFile, session, cur, ctxDone >>]_vars
  /\ [][ReadFailed("read_error") =>
          /\ Backoff(h'.last) = BackoffSeconds
          /\ pc' = "sleeping"
          /\ UNCHANGED << received, tables, columnNames, columnTypes, reader,
                          posFile, cur, ctxDone >>]_vars
  /\ [][(up /\ up' /\ pc = "sleeping" /\ pc' # "sleeping") =>
          pc' = "top" /\ h' = h]_vars
  /\ [][(up /\ up' /\ pc # "reading" /\ pc' = "reading") =>
          pc = "top" /\ ~ctxDone]_vars
  /\ [][(up /\ up' /\ pc = "top" /\ ctxDone) =>
          /\ h'.last = h.last
          /\ pc' \in {"top", "returned"}]_vars

\* the source has no further event: after the last event was published
\* the read has timed out, with the caches and the position file filled
C35_Witness ==
  /\ up /\ pc = "top" /\ ~ctxDone
  /\ h.last = "timeout"
  /\ received # << >> /\ tables # NoTables /\ posFile.exists
  /\ session.cursor = Len(binlog) + 1

(***************************************************************************)
(* The caches of column names and types alone: successive calls of         *)
(* getColumnInfo of one process, for tables of several databases.          *)
(***************************************************************************)
\* the catalog of the server, by database; identifiers may hold a dot
LookupCatalog(database) ==
  CASE database = "shop" -> Catalog
    [] database = "a.b" -> [c |-> [names |-> << "x" >>, types |-> << TypeInt >>]]
    [] database = "a" ->
         [t \in {"b.c"} |-> [names |-> << "y", "z" >>, types |-> << TypeInt, TypeText >>]]

\* the tables that row events come for
LookupTables == { << "shop", "orders" >>, << "a.b", "c" >>, << "a", "b.c" >> }

InitLookup ==
  /\ Idle
  /\ call = [op |-> "lookup", columnNames |-> NoCache, columnTypes |-> NoCache,
             log |-> << >>, done |-> FALSE]

\* ProcessRowEvent: getColumnInfo for the table of a row event; dbOk says
\* whether the query succeeds if one is made
Lookup ==
  /\ call.op = "lookup" /\ Len(call.log) < MaxLookups
  /\ \E t \in LookupTables, dbOk \in BOOLEAN :
       LET info == getColumnInfo(call.columnNames, call.columnTypes, t[1], t[2],
                                 LookupCatalog(t[1]), dbOk)
       IN  call' = [call EXCEPT
                      !.columnNames = info.columnNames,
                      !.columnTypes = info.columnTypes,
                      !.log = Append(@, [database |-> t[1], table |-> t[2],
                                         ok |-> info.ok, queried |-> info.queried,
                                         names |-> info.names, types |-> info.types]),
                      !.done = TRUE]
  /\ IdleUnchanged

NextLookup == Lookup

SpecLookup == InitLookup /\ [][NextLookup]_vars

\* whether lookup i of the log made a query that succeeded, for the table
\* of lookup j
Fetched(i, j) ==
  /\ call.log[i].database = call.log[j].database
  /\ call.log[i].table = call.log[j].table
  /\ call.log[i].queried /\ call.log[i].ok

\* C36: the lookup is memoized per (database, table): a lookup makes no
\* query exactly when an earlier lookup for the same database and table
\* made one that succeeded, and then it returns the names and types that
\* one returned; a query that fails stores nothing.
C36_MemoizedPerTable ==
  call.op = "lookup" =>
    \A j \in 1..Len(call.log) :
      /\ ~call.log[j].queried <=> \E i \in 1..(j - 1) : Fetched(i, j)
      /\ \A i \in 1..(j - 1) :
           Fetched(i, j) => /\ call.log[j].ok
                            /\ call.log[j].names = call.log[i].names
                            /\ call.log[j].types = call.log[i].types

(***************************************************************************)
(* Scripts with global state: successive calls of transformWithJavaScript  *)
(* of one process.  A runtime is described by the global n of the scripts  *)
(* of the model, 0 when it is undefined.                                   *)
(***************************************************************************)
\* goja.New()
NewVm == [n |-> 0]

\* a variant that keeps the runtime of the event before
VmFor_Kept(prev) == prev

\* the runtime transformWithJavaScript runs the script in, given the
\* runtime it ran the script in for the event before: a new one
VmFor(prev) == NewVm

\* the scripts: one returns the event as it is; one counts its calls in
\* the global n (set to 0 by the script if it is undefined) and returns
\* the event with the count in the field seq; one returns the event when
\* n is undefined, sets n, and returns null when it finds n set
Scripts == {"identity", "counter", "first_only"}

\* RunString of the script and the call of its function in runtime vm: the
\* runtime afterwards and what the function returned
CallScript(script, vm, eventObj) ==
  CASE script = "counter" ->
         [vm |-> [vm EXCEPT !.n = vm.n + 1],
          result |-> [k |-> "object",
                      obj |-> [f \in DOMAIN eventObj \cup {"seq"} |->
                                 IF f = "seq" THEN [k |-> "number", n |-> vm.n + 1, id |-> ""]
                                 ELSE eventObj[f]]]]
    [] script = "first_only" ->
         [vm |-> [vm EXCEPT !.n = 1],
          result |-> IF vm.n = 0
                     THEN [k |-> "object", obj |-> eventObj]
                     ELSE [k |-> "null", obj |-> NoFields]]
    [] OTHER ->
         [vm |-> vm, result |-> [k |-> "object", obj |-> eventObj]]

\* transformWithJavaScript with the script of the transformer: the runtime
\* it leaves behind and what it returns
TransformWithScript(script, prev, event) ==
  LET c == CallScript(script, VmFor(prev), Marshal(event))
  IN  [vm |-> c.vm, out |-> transformWithJavaScript(event, c.result)]

InitScript ==
  /\ Idle
  /\ \E script \in Scripts :
       call = [op |-> "script", script |-> script, vm |-> NewVm, log |-> << >>,
               done |-> FALSE]

\* Start: Transform on the next row event
ScriptEvent ==
  /\ call.op = "script" /\ Len(call.log) < MaxScriptEvents
  /\ \E event \in RuleEvents :
       LET t == TransformWithScript(call.script, call.vm, event)
       IN  call' = [call EXCEPT !.vm = t.vm,
                                !.log = Append(@, [event |-> event, out |-> t.out]),
                                !.done = TRUE]
  /\ IdleUnchanged

NextScript == ScriptEvent

SpecScript == InitScript /\ [][NextScript]_vars

\* C37: what the script mode returns for an event does not depend on the
\* events before it: it is what the script returns for the event in a new
\* runtime, and the same event gives the same result wherever it comes
\* in the sequence.
C37_FreshRuntimePerEvent ==
  call.op = "script" =>
    /\ \A i \in 1..Len(call.log) :
         call.log[i].out =
           transformWithJavaScript(
             call.log[i].event,
             CallScript(call.script, NewVm, Marshal(call.log[i].event)).result)
    /\ \A i \in 1..Len(call.log) : \A j \in 1..Len(call.log) :
         call.log[i].event = call.log[j].event => call.log[i].out = call.log[j].out

\* the script that counts its calls has handled three events and has
\* numbered each of them 1
C37_Witness ==
  /\ call.op = "script" /\ call.script = "counter"
  /\ Len(call.log) = 3
  /\ call.log[1].event # call.log[2].event
  /\ \A i \in 1..3 :
       /\ call.log[i].out.err = None
       /\ call.log[i].out.event.RawJSON.obj.seq.n = 1

(***************************************************************************)
(* The shutdown: main and the goroutine that runs Processor.Start, step by *)
(* step.  The loop is at its select ("top"), inside ReadEvent ("reading":  *)
(* GetEvent on the streamer of the reader, then the write of the position  *)
(* file), inside ProcessRowEvent ("decoding": the query on the catalog     *)
(* connection), inside Publish ("publishing": the connection of the sink)  *)
(* or has returned.  main waits in its select, cancels the context on a    *)
(* signal, returns, which runs its deferred calls, and the process ends.   *)
(***************************************************************************)
\* the resources main defers the Close of, in the order the deferred calls
\* run when main returns: proc.Close, publisher.Close, reader.Close
Deferred == << "catalog", "sink", "reader" >>

\* the resource the loop is using
InUse(loop) ==
  CASE loop = "reading" -> "reader"
    [] loop = "decoding" -> "catalog"
    [] loop = "publishing" -> "sink"
    [] OTHER -> None

InitShutdown ==
  /\ Idle
  /\ call = [op |-> "shutdown", loop |-> "top", main |-> "wait", ctxDone |-> FALSE,
             closed |-> {}, afterClose |-> {}, events |-> 0, done |-> FALSE]

\* the loop goes on to the place next, and begins to use what is used
\* there
LoopAt(next) ==
  [call EXCEPT !.loop = next,
               !.afterClose = IF InUse(next) \in call.closed
                              THEN @ \cup {InUse(next)} ELSE @,
               !.done = TRUE]

\* Start: the select finds the context not cancelled and calls ReadEvent
LoopCallsRead ==
  /\ call.op = "shutdown" /\ call.main # "exited"
  /\ call.loop = "top" /\ ~call.ctxDone
  /\ call.events < MaxShutdownEvents
  /\ call' = [LoopAt("reading") EXCEPT !.events = @ + 1]
  /\ IdleUnchanged

\* Start: the select finds the context cancelled and Start returns
LoopReturns ==
  /\ call.op = "shutdown" /\ call.main # "exited"
  /\ call.loop = "top" /\ call.ctxDone
  /\ call' = LoopAt("returned")
  /\ IdleUnchanged

\* ReadEvent returns: an error or an event that is no row event, and the
\* loop is back at its select, or a row event, and ProcessRowEvent is
\* called
ReadEventReturns ==
  /\ call.op = "shutdown" /\ call.main # "exited"
  /\ call.loop = "reading"
  /\ \E next \in {"top", "decoding"} : call' = LoopAt(next)
  /\ IdleUnchanged

\* ProcessRowEvent returns: an error, and the loop is back at its select,
\* or a change event, and Publish is called
LoopDecodes ==
  /\ call.op = "shutdown" /\ call.main # "exited"
  /\ call.loop = "decoding"
  /\ \E next \in {"top", "publishing"} : call' = LoopAt(next)
  /\ IdleUnchanged

\* Publish returns
LoopPublishes ==
  /\ call.op = "shutdown" /\ call.main # "exited"
  /\ call.loop = "publishing"
  /\ call' = LoopAt("top")
  /\ IdleUnchanged

\* main: a signal arrives and main cancels the context
MainCancels ==
  /\ call.op = "shutdown" /\ call.main = "wait"
  /\ call' = [call EXCEPT !.main = "returning", !.ctxDone = TRUE, !.done = TRUE]
  /\ IdleUnchanged

\* main returns: the next deferred Close runs
MainRunsDeferred ==
  /\ call.op = "shutdown" /\ call.main = "returning"
  /\ Cardinality(call.closed) < Len(Deferred)
  /\ call' = [call EXCEPT !.closed = @ \cup {Deferred[Cardinality(call.closed) + 1]}]
  /\ IdleUnchanged

\* main has returned: the process ends, and the goroutine of the loop
\* with it
MainReturns ==
  /\ call.op = "shutdown" /\ call.main = "returning"
  /\ Cardinality(call.closed) = Len(Deferred)
  /\ call' = [call EXCEPT !.main = "exited"]
  /\ IdleUnchanged

NextShutdown ==
  \/ LoopCallsRead
  \/ LoopReturns
  \/ ReadEventReturns
  \/ LoopDecodes
  \/ LoopPublishes
  \/ MainCancels
  \/ MainRunsDeferred
  \/ MainReturns

SpecShutdown == InitShutdown /\ [][NextShutdown]_vars

\* C38: after a signal main closes the reader, the sink connection and
\* the catalog connection, and the process ends, only when the loop has
\* returned: nothing that is closed is in use by the loop or is used by
\* it later, and the loop has returned when the process ends.
C38_ClosedAfterLoop ==
  call.op = "shutdown" =>
    /\ call.closed # {} => call.loop = "returned"
    /\ call.afterClose = {}
    /\ call.main = "exited" => call.loop = "returned"

(***************************************************************************)
(* Properties of the position file as a place to resume from.              *)
(***************************************************************************)
\* C39: the position in the position file is never the end of a table map
\* event, and every row event that the loop has in hand, in the first run
\* or after a restart from the position file, has its table map in the
\* cache.
C39_SafeResumePoint ==
  /\ posFile.exists =>
       \A i \in 1..Len(binlog) :
         binlog[i].kind = "tablemap" => FilePosition # EndOf(binlog[i])
  /\ (up /\ pc = "have" /\ cur.e.kind = "rows") => cur.e.tid \in DOMAIN tables

(***************************************************************************)
(* Properties of transformRow as a function.                               *)
(***************************************************************************)
\* C40: for the rule that was applied and every row and old row of the
\* event, transformRow has exactly one row it can return, also when two
\* fields that it lets through are put out under the same key.
C40_RowDeterministic ==
  RulesApplied =>
    LET rule == call.t.rules[FirstMatch(call.cfg.Rules, call.event)]
    IN  /\ \A i \in 1..Len(call.event.Rows) :
             Cardinality(transformRow(call.event.Rows[i], rule)) = 1
        /\ \A i \in 1..Len(call.event.OldRows) :
             Cardinality(transformRow(call.event.OldRows[i], rule)) = 1

==============================================================================
